---- MODULE Spec2Model ----
(***************************************************************************)
(* Poll backend: two revisions of the poll service over a relational store *)
(* with soft deletion.                                                     *)
(*                                                                         *)
(*   "diff" : src/src/service/poll.ts  - no transactions, poll_tag rows    *)
(*            carry pollId, votes carry a signed diff.                     *)
(*   "tx"   : src/unnamed/part_002     - db.transaction(...) around the    *)
(*            multi statement mutations, tags shared through poll_tag_map, *)
(*            one active vote per voter and poll.  The schema of this      *)
(*            revision is src/unnamed/part_000.                            *)
(*                                                                         *)
(* A behaviour runs one revision (svc) against its database.  Tables are   *)
(* sequences of rows; the id of a row is its position, and position order  *)
(* is insertion order.  Rows are never removed (soft delete only).         *)
(*                                                                         *)
(* Every service function is an operator from the database and the call's  *)
(* input to [db, res]: the database a call leaves when no statement of     *)
(* another call runs between its own, and what the caller gets ("error"    *)
(* stands for a rejected promise).                                         *)
(*                                                                         *)
(* The actions take a call statement by statement, as the code awaits      *)
(* them: calls holds, for every call in flight, its input, the statement   *)
(* it has reached and what it has read so far.                             *)
(***************************************************************************)
EXTENDS Integers, Sequences, FiniteSets, TLC

VARIABLES svc, poll, pollOption, pollTag, pollTagMap, pollVote, pending, calls

vars == <<svc, poll, pollOption, pollTag, pollTagMap, pollVote, pending, calls>>

\* the database as one value; pending holds, in the order of issue, the
\* option UPDATEs that the diff revision's updatePoll issued without
\* awaiting them
DB == [poll |-> poll, pollOption |-> pollOption, pollTag |-> pollTag,
       pollTagMap |-> pollTagMap, pollVote |-> pollVote, pending |-> pending]

EmptyDB == [poll |-> <<>>, pollOption |-> <<>>, pollTag |-> <<>>,
            pollTagMap |-> <<>>, pollVote |-> <<>>, pending |-> <<>>]

(***************************************************************************)
(* Bounds of the model: rows per table, statements in flight.              *)
(***************************************************************************)
MaxPolls == 2
MaxOptions == 3
MaxTags == 2
MaxMaps == 2
MaxVotes == 2
MaxPending == 1
MaxCalls == 2
MaxClock == 3

(***************************************************************************)
(* Input domains.  NoUser is a payload without userId.                     *)
(***************************************************************************)
Users == {"u1", "u2"}
NoUser == "none"
Questions == {"q1", "q2"}
Names == {"x", "y"}
Indexes == {1, 2}
Counts == {0, 1}
Diffs == {-1, 1}

Texts == {"t1", "t2"}

\* An option of a payload.  index stands for the order key (index in
\* service/poll.ts, optionKey in part_002); confidence is copied like text.
OptT(i, t, c) == [index |-> i, text |-> t, count |-> c]
Opt(i, c) == OptT(i, "t1", c)
OptionPayloads == {Opt(i, c) : i \in Indexes, c \in Counts}

\* payloads of createPoll: option lists and tag name lists
CreateOptions == {<<>>, <<Opt(1, 0)>>, <<Opt(1, 0), Opt(2, 0)>>, <<Opt(2, 1), Opt(1, 0)>>}
CreateNames == {<<>>, <<"x">>, <<"y", "x">>, <<"x", "x">>}

(***************************************************************************)
(* The store.                                                              *)
(***************************************************************************)
\* UPDATE t SET ... WHERE P : every row that satisfies P is replaced by F(row).
UpdateWhere(t, P(_, _), F(_)) ==
  [i \in DOMAIN t |-> IF P(i, t[i]) THEN F(t[i]) ELSE t[i]]

\* rowCount of UPDATE t ... WHERE P.
RowCount(t, P(_, _)) == Cardinality({i \in DOMAIN t : P(i, t[i])})

\* findFirst: the id of the first row that satisfies P, 0 when there is none.
\* The queries give no ORDER BY; the lookups of the model match at most one
\* row in the states the specifications reach.
FindFirst(t, P(_, _)) ==
  IF \E i \in DOMAIN t : P(i, t[i])
    THEN CHOOSE i \in DOMAIN t : P(i, t[i]) /\ \A j \in 1..(i - 1) : ~P(j, t[j])
    ELSE 0

\* an UPDATE that flips isDeleted
SoftDelete_flips(r) == [r EXCEPT !.isDeleted = ~@]

\* SET isDeleted = true
SoftDelete(r) == [r EXCEPT !.isDeleted = TRUE]
Restore(r) == [r EXCEPT !.isDeleted = FALSE]

Max(S) == CHOOSE m \in S : \A x \in S : x <= m

\* now() as a statement outside a transaction gets it: later than the
\* created_at of every poll row
clock(db) == 1 + Max({0} \cup {db.poll[p].createdAt : p \in DOMAIN db.poll})

\* created_at defaults to now(): in an INSERT outside a transaction the time
\* of the statement, inside a transaction the time the transaction began
pollRow(userId, question, at) ==
  [userId |-> userId, question |-> question, isDeleted |-> FALSE, createdAt |-> at]

\* rows inserted for the payload options of a poll, in payload order
optionRows(pollId, opts) ==
  [k \in DOMAIN opts |-> [pollId |-> pollId, index |-> opts[k].index,
                          text |-> opts[k].text,
                          count |-> IF opts[k].count = 0 THEN 0 ELSE opts[k].count,
                          isDeleted |-> FALSE]]

\* The option rows a transaction of part_002 inserts (count: opt.count || 0).
\* created_at defaults to now(), the start time of the transaction: the rows
\* of one transaction carry the same created_at, later transactions a later
\* one.  The time is the number of option rows that existed before.
optionRowsT(pollId, opts, at) ==
  [k \in DOMAIN opts |-> [pollId |-> pollId, index |-> opts[k].index,
                          text |-> opts[k].text,
                          count |-> IF opts[k].count = 0 THEN 0 ELSE opts[k].count,
                          isDeleted |-> FALSE, createdAt |-> at]]

Result(db, res) == [db |-> db, res |-> res]

(***************************************************************************)
(* Transactional revision (src/unnamed/part_002).  fail: a statement of    *)
(* the call is rejected by the store; inside db.transaction that rolls     *)
(* the transaction back.                                                   *)
(***************************************************************************)

\* INSERT INTO poll_tag_map ... ON CONFLICT (poll_id, tag_id, user_id) DO
\* UPDATE.  poll_tag_map is declared with its primary key on id and nothing
\* else (part_000): no unique index matches the conflict target, and the
\* store rejects the statement whatever the rows are.
upsertMap(maps, pollId, tagId, userId) == [rows |-> maps, ok |-> FALSE]

\* pollTag.findFirst(name, userId); resurrect or insert; then the
\* poll_tag_map upsert.  The tag rows are written by find-then-insert
\* (poll_tag carries no unique index either).  A rejected upsert throws out
\* of the transaction, which undoes the tag row written before it.
attachTag(db, pollId, name, userId) ==
  LET found == FindFirst(db.pollTag, LAMBDA i, r : r.name = name /\ r.userId = userId)
      tag1 == IF found # 0
                THEN IF db.pollTag[found].isDeleted
                       THEN [db.pollTag EXCEPT ![found] = Restore(@)]
                       ELSE db.pollTag
                ELSE Append(db.pollTag, [name |-> name, userId |-> userId,
                                         isDeleted |-> FALSE])
      tagId == IF found # 0 THEN found ELSE Len(tag1)
      map1 == upsertMap(db.pollTagMap, pollId, tagId, userId)
  IN IF map1.ok
       THEN Result([db EXCEPT !.pollTag = tag1, !.pollTagMap = map1.rows], "ok")
       ELSE Result(db, "error")

\* the tag loop of createPoll: it ends at the first statement that throws
RECURSIVE attachTags(_, _, _, _)
attachTags(db, pollId, names, userId) ==
  IF names = <<>> THEN Result(db, "ok")
  ELSE LET r == attachTag(db, pollId, Head(names), userId)
       IN IF r.res = "error" THEN r
          ELSE attachTags(r.db, pollId, Tail(names), userId)

\* the callback of createPoll's transaction, begun at the time at, run on
\* the committed rows db: what it throws rolls everything back
insertPollT(db, userId, question, opts, names, at) ==
  IF userId = NoUser THEN Result(db, "error")
  ELSE LET pollId == Len(db.poll) + 1
           db1 == [db EXCEPT !.poll = Append(@, pollRow(userId, question, at)),
                             !.pollOption = @ \o optionRowsT(pollId, opts, Len(@))]
           r == attachTags(db1, pollId, names, userId)
       IN IF r.res = "error" THEN Result(db, "error") ELSE Result(r.db, "ok")

\* createPoll(pollData): one transaction; an error rolls everything back
createPollT(db, userId, question, opts, names, fail) ==
  IF fail THEN Result(db, "error")
  ELSE insertPollT(db, userId, question, opts, names, clock(db))

\* the ownership lookup without the isDeleted = false condition
ownedActivePoll_evenDeleted(db, pollId, userId) ==
  /\ pollId \in DOMAIN db.poll
  /\ db.poll[pollId].userId = userId

\* the poll row updatePoll, addPollOption, deletePollOption, tagPoll and
\* untagPoll look up first: id, owner and isDeleted = false
ownedActivePoll(db, pollId, userId) ==
  /\ pollId \in DOMAIN db.poll
  /\ db.poll[pollId].userId = userId
  /\ ~db.poll[pollId].isDeleted

\* updatePoll(poll).  After the ownership lookup the callback updates the
\* scalar fields and then evaluates the identifier `id` (lines 225, 229, 243,
\* 286), which the function never declares (the payload is destructured into
\* newPollOptions, newTagsData, userId and the rest): the ReferenceError
\* rejects the callback and the transaction rolls back.
updatePollT(db, userId, pollId, question, fail) ==
  IF userId = NoUser \/ fail THEN Result(db, "error")
  ELSE IF ~ownedActivePoll(db, pollId, userId) THEN Result(db, "null")
  ELSE Result(db, "error")

\* deletePoll(id, userId): one UPDATE of the poll row, result.rowCount > 0
deletePollT(db, userId, pollId, fail) ==
  LET mine(i, r) == i = pollId /\ r.userId = userId
  IN IF fail THEN Result(db, "error")
     ELSE Result([db EXCEPT !.poll = UpdateWhere(@, mine, SoftDelete)],
                 IF RowCount(db.poll, mine) > 0 THEN "true" ELSE "false")

\* addPollOption({pollId, option, userId}): lookup, then one INSERT
addPollOptionT(db, userId, pollId, opt, fail) ==
  IF ~ownedActivePoll(db, pollId, userId) \/ fail THEN Result(db, "error")
  ELSE Result([db EXCEPT !.pollOption = @ \o optionRowsT(pollId, <<opt>>, Len(@))], "ok")

\* deletePollOption({pollId, optionId, userId}): lookup, then one UPDATE
deletePollOptionT(db, userId, pollId, optionId, fail) ==
  LET hit(i, r) == i = optionId /\ r.pollId = pollId
  IN IF ~ownedActivePoll(db, pollId, userId) \/ fail THEN Result(db, "error")
     ELSE Result([db EXCEPT !.pollOption = UpdateWhere(@, hit, SoftDelete)],
                 IF RowCount(db.pollOption, hit) > 0 THEN "true" ELSE "false")

\* voteOption without the soft delete of the voter's previous vote
voteOptionT_keepsPrior(db, userId, pollId, optionId, fail) ==
  LET found == /\ optionId \in DOMAIN db.pollOption
               /\ db.pollOption[optionId].pollId = pollId
               /\ ~db.pollOption[optionId].isDeleted
               /\ pollId \in DOMAIN db.poll
               /\ ~db.poll[pollId].isDeleted
  IN IF userId = NoUser \/ ~found \/ fail THEN Result(db, "error")
     ELSE Result([db EXCEPT
                    !.pollVote = Append(@, [pollId |-> pollId, optionId |-> optionId,
                                            userId |-> userId, isDeleted |-> FALSE]),
                    !.pollOption[optionId].count = @ + 1],
                 "true")

\* voteOption(voteData)
voteOptionT(db, userId, pollId, optionId, fail) ==
  LET found == /\ optionId \in DOMAIN db.pollOption
               /\ db.pollOption[optionId].pollId = pollId
               /\ ~db.pollOption[optionId].isDeleted
               /\ pollId \in DOMAIN db.poll
               /\ ~db.poll[pollId].isDeleted
      prior(i, r) == r.pollId = pollId /\ r.userId = userId /\ ~r.isDeleted
  IN IF userId = NoUser \/ ~found \/ fail THEN Result(db, "error")
     ELSE Result([db EXCEPT
                    !.pollVote = Append(UpdateWhere(@, prior, SoftDelete),
                                        [pollId |-> pollId, optionId |-> optionId,
                                         userId |-> userId, isDeleted |-> FALSE]),
                    !.pollOption[optionId].count = @ + 1],
                 "true")

\* the value getUserVote returns when it finds no vote
Null == [null |-> TRUE]

\* getUserVote(pollId, userId): the first active vote of the user on the
\* poll, with diff 0, or null
getUserVote(db, pollId, userId) ==
  LET found == FindFirst(db.pollVote, LAMBDA i, r :
                  r.pollId = pollId /\ r.userId = userId /\ ~r.isDeleted)
  IN IF found = 0 THEN Null
     ELSE [pollId |-> db.pollVote[found].pollId, optionId |-> db.pollVote[found].optionId,
           userId |-> db.pollVote[found].userId, diff |-> 0]

\* tagPoll(pollId, tagName, userId): one transaction; the result is whether
\* the upsert returned a mapping row
tagPollT(db, userId, pollId, tagName, fail) ==
  IF ~ownedActivePoll(db, pollId, userId) \/ fail THEN Result(db, "error")
  ELSE LET r == attachTag(db, pollId, tagName, userId)
       IN IF r.res = "error" THEN Result(db, "error") ELSE Result(r.db, "true")

\* untagPoll(pollId, tagId, userId): lookup, then one UPDATE of poll_tag_map
untagPollT(db, userId, pollId, tagId, fail) ==
  LET hit(i, r) == r.pollId = pollId /\ r.tagId = tagId /\ r.userId = userId
  IN IF ~ownedActivePoll(db, pollId, userId) \/ fail THEN Result(db, "error")
     ELSE Result([db EXCEPT !.pollTagMap = UpdateWhere(@, hit, SoftDelete)],
                 IF RowCount(db.pollTagMap, hit) > 0 THEN "true" ELSE "false")

(***************************************************************************)
(* Reads of the transactional revision.  A read returns the ids of the     *)
(* polls it returns, in order.                                             *)
(***************************************************************************)
\* the latest of the rows ids of table t
Latest(t, ids) == CHOOSE i \in ids : \A j \in ids : t[j].createdAt <= t[i].createdAt

\* ORDER BY created_at DESC over rows whose created_at differ
RECURSIVE NewestFirst(_, _)
NewestFirst(t, ids) ==
  IF ids = {} THEN <<>>
  ELSE <<Latest(t, ids)>> \o NewestFirst(t, ids \ {Latest(t, ids)})

\* LIMIT limit OFFSET offset
Page(s, limit, offset) ==
  SubSeq(s, offset + 1, IF offset + limit < Len(s) THEN offset + limit ELSE Len(s))

\* getPollWithRelations(pollId) / getPollById(id): 0 stands for null
getPollById(db, id) ==
  IF id \in DOMAIN db.poll /\ ~db.poll[id].isDeleted THEN id ELSE 0

\* the orders in which a query with ORDER BY created_at DESC may return the
\* rows ids of table t: rows with equal created_at come in any order
OrdersDesc(t, ids) ==
  {s \in [1..Cardinality(ids) -> ids] :
     /\ \A i, j \in DOMAIN s : i # j => s[i] # s[j]
     /\ \A i, j \in DOMAIN s : i < j => t[s[i]].createdAt >= t[s[j]].createdAt}

\* pollOptions of a hydrated poll (getPollWithRelations, listPolls): the
\* active options of the poll, ORDER BY created_at DESC
pollOptionsT(db, pollId) ==
  OrdersDesc(db.pollOption, {o \in DOMAIN db.pollOption :
                               /\ db.pollOption[o].pollId = pollId
                               /\ ~db.pollOption[o].isDeleted})

\* tags of a hydrated poll: the active tags of its active mappings, one per
\* mapping row (no order is requested: the ids of the mapping rows stand for
\* the entries)
pollTagsT(db, pollId) ==
  {m \in DOMAIN db.pollTagMap : /\ db.pollTagMap[m].pollId = pollId
                               /\ ~db.pollTagMap[m].isDeleted
                               /\ ~db.pollTag[db.pollTagMap[m].tagId].isDeleted}

listPollsT(db, userIdInput, limit, offset) ==
  Page(NewestFirst(db.poll, {p \in DOMAIN db.poll :
                  /\ ~db.poll[p].isDeleted
                  /\ (userIdInput # NoUser => db.poll[p].userId = userIdInput)}),
       limit, offset)

searchPollsByTag(db, tagId, limit, offset) ==
  Page(NewestFirst(db.poll, {p \in DOMAIN db.poll :
                  /\ ~db.poll[p].isDeleted
                  /\ \E m \in DOMAIN db.pollTagMap :
                       /\ db.pollTagMap[m].pollId = p
                       /\ db.pollTagMap[m].tagId = tagId
                       /\ ~db.pollTagMap[m].isDeleted}),
       limit, offset)

\* searchPolls(query, limit, offset): its first statement is SELECT DISTINCT
\* poll.id ... ORDER BY poll.created_at DESC.  The store rejects a SELECT
\* DISTINCT whose ORDER BY expression is not in the select list, whatever
\* the rows and the query are, so every call throws before it reads a row.
searchPolls(db, query, limit, offset) == Result(db, "error")

(***************************************************************************)
(* Diff revision (src/src/service/poll.ts).  No call runs in a             *)
(* transaction.  failAt numbers the statement of the call that the store   *)
(* rejects (0: none); statements issued before it, or concurrently with    *)
(* it, keep their effect.                                                  *)
(***************************************************************************)
\* the sequence s without its j-th element (s itself when j is no index)
Skip(s, j) ==
  IF j \notin DOMAIN s THEN s
  ELSE [k \in 1..(Len(s) - 1) |-> IF k < j THEN s[k] ELSE s[k + 1]]

tagRowsD(pollId, names, userId) ==
  [k \in DOMAIN names |-> [pollId |-> pollId, name |-> names[k], userId |-> userId,
                           isDeleted |-> FALSE]]

\* createPoll(poll, userId): statement 1 inserts the poll; the option inserts
\* (2 .. 1+n) and the tag inserts (2+n .. 1+n+m) are all issued before the
\* first of them is awaited.
createPollD(db, userId, question, opts, names, failAt) ==
  IF failAt = 1 THEN Result(db, "error")
  ELSE LET pollId == Len(db.poll) + 1
           n == Len(opts)
       IN Result([db EXCEPT
                    !.poll = Append(@, pollRow(userId, question, clock(db))),
                    !.pollOption = @ \o Skip(optionRows(pollId, opts), failAt - 1),
                    !.pollTag = @ \o Skip(tagRowsD(pollId, names, userId), failAt - 1 - n)],
                 IF failAt = 0 THEN "ok" ELSE "error")

\* the UPDATE of one option that updatePoll's forEach issues
optionUpdate(id, opt) == [id |-> id, index |-> opt.index, text |-> opt.text, count |-> opt.count]

\* updatePoll without the soft delete of the tags that are not in the payload
updatePollD_keepsStale(db, userId, pollId, question, optUpdates, names, failAt) ==
  IF failAt = 1 THEN Result(db, "error")
  ELSE
    LET mine(i, r) == i = pollId /\ ~r.isDeleted /\ r.userId = userId
        db1 == [db EXCEPT
                  !.poll = UpdateWhere(@, mine, LAMBDA r : [r EXCEPT !.question = question]),
                  !.pending = @ \o optUpdates]
        pollTags == SelectSeq(db.pollTag, LAMBDA r : r.pollId = pollId /\ ~r.isDeleted)
        has(rows, name) == \E k \in DOMAIN rows : rows[k].name = name
        shouldInsertTagNames ==
          SelectSeq(names, LAMBDA name : ~has(pollTags, name))
        stale == SelectSeq(pollTags, LAMBDA r : \A j \in DOMAIN names : names[j] # r.name)
        shouldDeleteTagNames == [k \in DOMAIN stale |-> stale[k].name]
        ni == Len(shouldInsertTagNames)
        inserted == Skip(shouldInsertTagNames, failAt - 2)
        deleted == <<>>
        gone(i, r) == r.pollId = pollId /\ \E k \in DOMAIN deleted : deleted[k] = r.name
    IN IF failAt = 2 THEN Result(db1, "error")
       ELSE Result([db1 EXCEPT
                      !.pollTag = UpdateWhere(@, gone, SoftDelete)
                                    \o tagRowsD(pollId, inserted, userId)],
                   IF failAt = 0 THEN "ok" ELSE "error")

\* updatePoll inserting every name of the payload, attached or not
updatePollD_reinsertsAll(db, userId, pollId, question, optUpdates, names, failAt) ==
  IF failAt = 1 THEN Result(db, "error")
  ELSE
    LET mine(i, r) == i = pollId /\ ~r.isDeleted /\ r.userId = userId
        db1 == [db EXCEPT
                  !.poll = UpdateWhere(@, mine, LAMBDA r : [r EXCEPT !.question = question]),
                  !.pending = @ \o optUpdates]
        pollTags == SelectSeq(db.pollTag, LAMBDA r : r.pollId = pollId /\ ~r.isDeleted)
        shouldInsertTagNames == names
        stale == SelectSeq(pollTags, LAMBDA r : \A j \in DOMAIN names : names[j] # r.name)
        shouldDeleteTagNames == [k \in DOMAIN stale |-> stale[k].name]
        ni == Len(shouldInsertTagNames)
        inserted == Skip(shouldInsertTagNames, failAt - 2)
        deleted == Skip(shouldDeleteTagNames, failAt - 2 - ni)
        gone(i, r) == r.pollId = pollId /\ \E k \in DOMAIN deleted : deleted[k] = r.name
    IN IF failAt = 2 THEN Result(db1, "error")
       ELSE Result([db1 EXCEPT
                      !.pollTag = UpdateWhere(@, gone, SoftDelete)
                                    \o tagRowsD(pollId, inserted, userId)],
                   IF failAt = 0 THEN "ok" ELSE "error")

\* updatePoll(poll, userId): statement 1 updates the poll row; the option
\* updates are issued and not awaited; statement 2 reads the poll's active
\* tags; then the tag inserts and the tag soft deletes (3 ..) are issued
\* together.
updatePollD(db, userId, pollId, question, optUpdates, names, failAt) ==
  IF failAt = 1 THEN Result(db, "error")
  ELSE
    LET mine(i, r) == i = pollId /\ ~r.isDeleted /\ r.userId = userId
        db1 == [db EXCEPT
                  !.poll = UpdateWhere(@, mine, LAMBDA r : [r EXCEPT !.question = question]),
                  !.pending = @ \o optUpdates]
        pollTags == SelectSeq(db.pollTag, LAMBDA r : r.pollId = pollId /\ ~r.isDeleted)
        has(rows, name) == \E k \in DOMAIN rows : rows[k].name = name
        shouldInsertTagNames ==
          SelectSeq(names, LAMBDA name : ~has(pollTags, name))
        stale == SelectSeq(pollTags, LAMBDA r : \A j \in DOMAIN names : names[j] # r.name)
        shouldDeleteTagNames == [k \in DOMAIN stale |-> stale[k].name]
        ni == Len(shouldInsertTagNames)
        inserted == Skip(shouldInsertTagNames, failAt - 2)
        deleted == Skip(shouldDeleteTagNames, failAt - 2 - ni)
        gone(i, r) == r.pollId = pollId /\ \E k \in DOMAIN deleted : deleted[k] = r.name
    IN IF failAt = 2 THEN Result(db1, "error")
       ELSE Result([db1 EXCEPT
                      !.pollTag = UpdateWhere(@, gone, SoftDelete)
                                    \o tagRowsD(pollId, inserted, userId)],
                   IF failAt = 0 THEN "ok" ELSE "error")

\* s without its k-th element
Drop(s, k) == SubSeq(s, 1, k - 1) \o SubSeq(s, k + 1, Len(s))

\* the k-th unawaited option UPDATE reaches the store: id = opt.id and
\* isDeleted = false.  The statements go to a connection pool, so the
\* UPDATEs in flight reach the store in any order.
applyOptionUpdate(db, k) ==
  LET u == db.pending[k]
      hit(i, r) == i = u.id /\ ~r.isDeleted
  IN [db EXCEPT
        !.pollOption = UpdateWhere(@, hit, LAMBDA r :
                          [r EXCEPT !.index = u.index, !.text = u.text, !.count = u.count]),
        !.pending = Drop(@, k)]

\* deletePoll(pollId, userId): three UPDATEs issued together (1: the poll row
\* of the caller, 2: the options of pollId, 3: the tags of pollId)
deletePollD(db, userId, pollId, failAt) ==
  LET mine(i, r) == i = pollId /\ r.userId = userId
      ofPoll(i, r) == r.pollId = pollId
  IN Result([db EXCEPT
               !.poll = IF failAt = 1 THEN @ ELSE UpdateWhere(@, mine, SoftDelete),
               !.pollOption = IF failAt = 2 THEN @ ELSE UpdateWhere(@, ofPoll, SoftDelete),
               !.pollTag = IF failAt = 3 THEN @ ELSE UpdateWhere(@, ofPoll, SoftDelete)],
            IF failAt = 0 THEN "ok" ELSE "error")

\* GREATEST(count + diff, 0)
Greatest(a, b) == IF a >= b THEN a ELSE b

\* an UPDATE that writes the diff over the stored count
adjustCount_overwrites(options, optionId, diff) ==
  LET hit(i, r) == i = optionId
  IN UpdateWhere(options, hit, LAMBDA r : [r EXCEPT !.count = Greatest(diff, 0)])

\* UPDATE poll_option SET count = GREATEST(count + diff, 0) WHERE id
adjustCount(options, optionId, diff) ==
  LET hit(i, r) == i = optionId
  IN UpdateWhere(options, hit, LAMBDA r : [r EXCEPT !.count = Greatest(r.count + diff, 0)])

\* voteOption(vote): statement 1 inserts the vote, statement 2 adjusts the
\* option's count.  poll_vote references poll and poll_option: the insert
\* of a vote on a poll id or an option id that has no row is rejected.
voteOptionD(db, userId, pollId, optionId, diff, failAt) ==
  IF failAt = 1 \/ pollId \notin DOMAIN db.poll \/ optionId \notin DOMAIN db.pollOption
    THEN Result(db, "error")
  ELSE LET db1 == [db EXCEPT !.pollVote = Append(@, [pollId |-> pollId, optionId |-> optionId,
                                                     userId |-> userId, diff |-> diff])]
       IN IF failAt = 2 THEN Result(db1, "error")
          ELSE Result([db1 EXCEPT !.pollOption = adjustCount(@, optionId, diff)], "ok")

\* listPolls(userId, limit, offset)
listPollsD(db, userId, limit, offset) ==
  Page(NewestFirst(db.poll, {p \in DOMAIN db.poll :
                  db.poll[p].userId = userId /\ ~db.poll[p].isDeleted}),
       limit, offset)

\* searchPollsByTagNames(userId, tagNames, limit): one poll per matching tag
\* row, in row order; limit is not used
searchPollsByTagNames(db, userId, tagNames, limit) ==
  LET tagsData == SelectSeq(db.pollTag, LAMBDA r :
                     r.userId = userId /\ r.name \in tagNames /\ ~r.isDeleted)
  IN [k \in DOMAIN tagsData |-> tagsData[k].pollId]

(***************************************************************************)
(* Calls.  A call in flight advances one database statement at a time;     *)
(* between two statements of a call any statement of another call may run. *)
(* calls holds, for every call in flight, its input, the statement it has  *)
(* reached and what it has read; a call that has returned or thrown leaves *)
(* nothing behind but the statements it had issued and the store has not   *)
(* run yet (pc thrown).  A call of the transactional revision that runs in *)
(* db.transaction writes to the tables when it commits; the rows it has    *)
(* updated stay locked until then (a second UPDATE of such a row waits),   *)
(* and a rejected statement rolls the transaction back.  A call is taken   *)
(* while its rows fit the bounds.                                          *)
(***************************************************************************)
Fits(db) ==
  /\ Len(db.poll) <= MaxPolls
  /\ Len(db.pollOption) <= MaxOptions
  /\ Len(db.pollTag) <= MaxTags
  /\ Len(db.pollTagMap) <= MaxMaps
  /\ Len(db.pollVote) <= MaxVotes
  /\ Len(db.pending) <= MaxPending

\* a statement that no call in flight waits for: the tables become those of db
Commit(db) ==
  /\ Fits(db)
  /\ poll' = db.poll
  /\ pollOption' = db.pollOption
  /\ pollTag' = db.pollTag
  /\ pollTagMap' = db.pollTagMap
  /\ pollVote' = db.pollVote
  /\ pending' = db.pending
  /\ UNCHANGED <<svc, calls>>

CallIds == 1..MaxCalls
Idle == [op |-> "none", pc |-> "idle"]

InFlight(c) == calls[c] # Idle

\* a call is made: it takes the first place of calls that is free
Free(c) == calls[c] = Idle /\ \A d \in 1..(c - 1) : calls[d] # Idle

\* the call c moves on; the tables become those of db
Step(c, call, db) ==
  /\ Fits(db)
  /\ poll' = db.poll
  /\ pollOption' = db.pollOption
  /\ pollTag' = db.pollTag
  /\ pollTagMap' = db.pollTagMap
  /\ pollVote' = db.pollVote
  /\ pending' = db.pending
  /\ calls' = [calls EXCEPT ![c] = call]
  /\ UNCHANGED svc

\* the call c returns or throws
Return(c, db) == Step(c, Idle, db)

\* a statement of call c is rejected: the call ends with an error; what it
\* wrote outside a transaction stays
Reject(c) == Return(c, DB)

\* the statements a call has issued together and still waits for
Statements(kind, s) == {[kind |-> kind, k |-> k] : k \in DOMAIN s}

\* the statements a call awaits first; it awaits those of the other kinds
\* once these have run: createPoll its option inserts, then its tag inserts;
\* updatePoll its tag inserts, then its soft deletes; deletePoll its three
\* UPDATEs together
AwaitedFirst(op) ==
  CASE op = "createPoll" -> {"option"}
    [] op = "updatePoll" -> {"insert"}
    [] OTHER -> {"poll", "options", "tags"}

\* the call has thrown: the statements in left are still on their way
Thrown(call) == [call EXCEPT !.pc = "thrown", !.failed = FALSE]

\* a statement of the call has run or has been rejected.  The call returns
\* when the statements it awaits have all run; it throws when it comes to
\* await statements one of which has been rejected (failed); of a call that
\* has thrown, the statements still on their way remain
Returned(call) ==
  IF call.left = {} THEN Idle
  ELSE IF call.failed /\ \A s \in call.left : s.kind \notin AwaitedFirst(call.op)
    THEN Thrown(call)
  ELSE call

\* the store rejects the issued statement s.  Promise.all rejects with the
\* first rejection: the call throws at once when it awaits the statements s
\* is one of, while the others it issued are still on their way; a rejection
\* among the statements it awaits later it meets when it comes to them
Rejection(call, s) ==
  LET rest == [call EXCEPT !.left = @ \ {s}]
  IN IF call.pc = "thrown" THEN Returned(rest)
     ELSE IF s.kind \in AwaitedFirst(call.op) THEN Returned(Thrown(rest))
     ELSE Returned([rest EXCEPT !.failed = TRUE])

\* ---- calls of the transactional revision that are one statement, or ----
\* ---- whose transaction never commits                                ----

\* updatePoll: the callback throws after its UPDATE of the poll row, and the
\* rollback undoes it; no other call sees a statement of this one
UpdatePollT(userId, pollId, question, fail) ==
  svc = "tx" /\ Commit(updatePollT(DB, userId, pollId, question, fail).db)

\* deletePoll: one UPDATE
DeletePollT(userId, pollId, fail) ==
  svc = "tx" /\ Commit(deletePollT(DB, userId, pollId, fail).db)

\* ---- createPoll of the transactional revision ----

\* now() of a transaction that begins: later than the created_at of every
\* poll row and than the begin of every transaction in flight
now ==
  Max({clock(DB)} \cup {calls[d].at + 1 : d \in {e \in CallIds : calls[e].op = "createPoll"}})

\* createPoll is called and its transaction begins
BeginCreateT(c, userId, question, opts, names) ==
  /\ svc = "tx" /\ Free(c)
  /\ now <= MaxClock
  /\ Step(c, [op |-> "createPoll", pc |-> "begin", userId |-> userId,
              question |-> question, opts |-> opts, names |-> names, at |-> now], DB)

\* the callback has run: the rows it inserted carry the time the
\* transaction began and reach the tables now, at the commit; when a
\* statement of the tag loop threw, nothing does
CreateCommitT(c) ==
  /\ svc = "tx" /\ calls[c].op = "createPoll" /\ calls[c].pc = "begin"
  /\ LET n == calls[c]
     IN Return(c, insertPollT(DB, n.userId, n.question, n.opts, n.names, n.at).db)

\* a statement of the transaction is rejected: rollback, nothing is written
CreateRollbackT(c) ==
  /\ svc = "tx" /\ calls[c].op = "createPoll" /\ InFlight(c)
  /\ Reject(c)

\* ---- addPollOption of the transactional revision ----

BeginAddOption(c, userId, pollId, opt) ==
  /\ svc = "tx" /\ Free(c)
  /\ Step(c, [op |-> "addPollOption", pc |-> "begin", userId |-> userId,
              pollId |-> pollId, opt |-> opt], DB)

\* the poll lookup: id, owner, isDeleted = false; a miss throws
AddOptionLookupT(c) ==
  /\ svc = "tx" /\ calls[c].op = "addPollOption" /\ calls[c].pc = "begin"
  /\ IF ownedActivePoll(DB, calls[c].pollId, calls[c].userId)
       THEN Step(c, [calls[c] EXCEPT !.pc = "owned"], DB)
       ELSE Return(c, DB)

\* INSERT INTO poll_option
AddOptionInsertT(c) ==
  /\ svc = "tx" /\ calls[c].op = "addPollOption" /\ calls[c].pc = "owned"
  /\ Return(c, [DB EXCEPT !.pollOption =
                             @ \o optionRowsT(calls[c].pollId, <<calls[c].opt>>, Len(@))])

\* the lookup or the insert is rejected
AddOptionRejectT(c) ==
  /\ svc = "tx" /\ calls[c].op = "addPollOption" /\ InFlight(c)
  /\ Reject(c)

\* ---- deletePollOption of the transactional revision ----

BeginDeleteOption(c, userId, pollId, optionId) ==
  /\ svc = "tx" /\ Free(c)
  /\ Step(c, [op |-> "deletePollOption", pc |-> "begin", userId |-> userId,
              pollId |-> pollId, optionId |-> optionId], DB)

\* the poll lookup: id, owner, isDeleted = false; a miss throws
DeleteOptionLookupT(c) ==
  /\ svc = "tx" /\ calls[c].op = "deletePollOption" /\ calls[c].pc = "begin"
  /\ IF ownedActivePoll(DB, calls[c].pollId, calls[c].userId)
       THEN Step(c, [calls[c] EXCEPT !.pc = "owned"], DB)
       ELSE Return(c, DB)

\* UPDATE poll_option SET isDeleted = true WHERE id, pollId: it waits while
\* a transaction in flight holds the lock of the row
DeleteOptionUpdateT(c) ==
  /\ svc = "tx" /\ calls[c].op = "deletePollOption" /\ calls[c].pc = "owned"
  /\ \A d \in CallIds :
       ~(calls[d].op = "voteOption" /\ calls[d].pc = "updated"
         /\ calls[d].optionId = calls[c].optionId
         /\ calls[c].optionId \in DOMAIN pollOption
         /\ pollOption[calls[c].optionId].pollId = calls[c].pollId)
  /\ LET hit(i, r) == i = calls[c].optionId /\ r.pollId = calls[c].pollId
     IN Return(c, [DB EXCEPT !.pollOption = UpdateWhere(@, hit, SoftDelete)])

\* the lookup or the update is rejected
DeleteOptionRejectT(c) ==
  /\ svc = "tx" /\ calls[c].op = "deletePollOption" /\ InFlight(c)
  /\ Reject(c)

\* ---- untagPoll of the transactional revision ----

BeginUntag(c, userId, pollId, tagId) ==
  /\ svc = "tx" /\ Free(c)
  /\ Step(c, [op |-> "untagPoll", pc |-> "begin", userId |-> userId,
              pollId |-> pollId, tagId |-> tagId], DB)

\* the poll lookup: id, owner, isDeleted = false; a miss throws
UntagLookupT(c) ==
  /\ svc = "tx" /\ calls[c].op = "untagPoll" /\ calls[c].pc = "begin"
  /\ IF ownedActivePoll(DB, calls[c].pollId, calls[c].userId)
       THEN Step(c, [calls[c] EXCEPT !.pc = "owned"], DB)
       ELSE Return(c, DB)

\* UPDATE poll_tag_map SET isDeleted = true WHERE pollId, tagId, userId
UntagUpdateT(c) ==
  /\ svc = "tx" /\ calls[c].op = "untagPoll" /\ calls[c].pc = "owned"
  /\ LET u == calls[c]
         hit(i, r) == r.pollId = u.pollId /\ r.tagId = u.tagId /\ r.userId = u.userId
     IN Return(c, [DB EXCEPT !.pollTagMap = UpdateWhere(@, hit, SoftDelete)])

\* the lookup or the update is rejected
UntagRejectT(c) ==
  /\ svc = "tx" /\ calls[c].op = "untagPoll" /\ InFlight(c)
  /\ Reject(c)

\* ---- voteOption ----

\* the ids of the active votes of a voter on a poll
activeVotes(db, pollId, userId) ==
  {i \in DOMAIN db.pollVote : /\ db.pollVote[i].pollId = pollId
                              /\ db.pollVote[i].userId = userId
                              /\ ~db.pollVote[i].isDeleted}

\* voteOption is called: nothing has run yet.  seen is the count the lookup
\* reads; prior are the vote rows the soft delete of the transaction has
\* matched.
BeginVote(c, userId, pollId, optionId, diff) ==
  /\ Free(c)
  /\ Step(c, [op |-> "voteOption", pc |-> "begin", userId |-> userId, pollId |-> pollId,
              optionId |-> optionId, diff |-> diff, seen |-> 0, prior |-> {}], DB)

\* ---- voteOption of the transactional revision, statement by statement ----

\* an UPDATE that writes the count the call read at its lookup, plus one
bumpCount_fromRead(stored, seen) == seen + 1

\* SET count = count + 1: the store computes the new count from the stored one
bumpCount(stored, seen) == stored + 1

\* the vote rows that other transactions in flight have updated
votesLockedByOthers(c) ==
  UNION {calls[d].prior : d \in {e \in CallIds \ {c} :
                                   /\ calls[e].op = "voteOption"
                                   /\ calls[e].pc \in {"softDeleted", "inserted", "updated"}}}

\* the option and poll lookup (findFirst); a miss throws
VoteLookupT(c) ==
  /\ svc = "tx" /\ calls[c].op = "voteOption" /\ calls[c].pc = "begin"
  /\ LET o == calls[c].optionId
         p == calls[c].pollId
         found == /\ o \in DOMAIN pollOption
                  /\ pollOption[o].pollId = p
                  /\ ~pollOption[o].isDeleted
                  /\ p \in DOMAIN poll
                  /\ ~poll[p].isDeleted
     IN IF calls[c].userId = NoUser \/ ~found
          THEN Return(c, DB)
          ELSE Step(c, [calls[c] EXCEPT !.pc = "found", !.seen = pollOption[o].count], DB)

\* UPDATE poll_vote SET isDeleted = true WHERE pollId, userId, isDeleted =
\* false.  The statement matches the rows committed when it starts; when
\* another transaction in flight has updated one of them it waits.
VoteSoftDeleteT(c) ==
  /\ svc = "tx" /\ calls[c].op = "voteOption" /\ calls[c].pc = "found"
  /\ LET mine == activeVotes(DB, calls[c].pollId, calls[c].userId)
     IN IF mine \cap votesLockedByOthers(c) = {}
          THEN Step(c, [calls[c] EXCEPT !.pc = "softDeleted", !.prior = mine], DB)
          ELSE Step(c, [calls[c] EXCEPT !.pc = "waiting", !.prior = mine], DB)

\* the transactions the soft delete waited for have ended: the statement
\* looks at its rows again and updates those that still satisfy
\* isDeleted = false; rows committed after its start are not among them
VoteResumeT(c) ==
  /\ svc = "tx" /\ calls[c].op = "voteOption" /\ calls[c].pc = "waiting"
  /\ calls[c].prior \cap votesLockedByOthers(c) = {}
  /\ Step(c, [calls[c] EXCEPT !.pc = "softDeleted",
                              !.prior = {i \in @ : ~pollVote[i].isDeleted}], DB)

\* INSERT INTO poll_vote
VoteInsertT(c) ==
  /\ svc = "tx" /\ calls[c].op = "voteOption" /\ calls[c].pc = "softDeleted"
  /\ Step(c, [calls[c] EXCEPT !.pc = "inserted"], DB)

\* UPDATE poll_option SET count = count + 1 WHERE id: takes the row's lock
VoteUpdateT(c) ==
  /\ svc = "tx" /\ calls[c].op = "voteOption" /\ calls[c].pc = "inserted"
  /\ \A d \in CallIds \ {c} :
       ~(calls[d].op = "voteOption" /\ calls[d].pc = "updated"
         /\ calls[d].optionId = calls[c].optionId)
  /\ Step(c, [calls[c] EXCEPT !.pc = "updated"], DB)

\* the transaction commits: its writes reach the tables
VoteCommitT(c) ==
  /\ svc = "tx" /\ calls[c].op = "voteOption" /\ calls[c].pc = "updated"
  /\ LET v == calls[c]
         mine(i, r) == i \in v.prior
     IN Return(c, [DB EXCEPT
                     !.pollVote = Append(UpdateWhere(@, mine, SoftDelete),
                                         [pollId |-> v.pollId, optionId |-> v.optionId,
                                          userId |-> v.userId, isDeleted |-> FALSE]),
                     !.pollOption[v.optionId].count = bumpCount(@, v.seen)])

\* a statement of the transaction is rejected: rollback, nothing is written
VoteRollbackT(c) ==
  /\ svc = "tx" /\ calls[c].op = "voteOption" /\ InFlight(c)
  /\ Reject(c)

\* ---- voteOption of the diff revision, statement by statement ----

\* INSERT INTO poll_vote: rejected when the poll or the option it references
\* has no row
VoteInsertD(c) ==
  /\ svc = "diff" /\ calls[c].op = "voteOption" /\ calls[c].pc = "begin"
  /\ LET v == calls[c]
     IN IF v.pollId \notin DOMAIN poll \/ v.optionId \notin DOMAIN pollOption
          THEN Return(c, DB)
          ELSE Step(c, [v EXCEPT !.pc = "inserted"],
                    [DB EXCEPT !.pollVote = Append(@, [pollId |-> v.pollId,
                                                      optionId |-> v.optionId,
                                                      userId |-> v.userId,
                                                      diff |-> v.diff])])

\* UPDATE poll_option SET count = GREATEST(count + diff, 0) WHERE id
VoteUpdateD(c) ==
  /\ svc = "diff" /\ calls[c].op = "voteOption" /\ calls[c].pc = "inserted"
  /\ LET v == calls[c]
     IN Return(c, [DB EXCEPT !.pollOption = adjustCount(@, v.optionId, v.diff)])

\* the insert or the update is rejected; what was written before stays
VoteRejectD(c) ==
  /\ svc = "diff" /\ calls[c].op = "voteOption" /\ InFlight(c)
  /\ Reject(c)

\* ---- tagPoll of the transactional revision, statement by statement ----

\* tagPoll is called: nothing has run yet.  tagId is the tag row the call
\* has found (0: none, the call inserts one) and isDeleted what it read of it.
BeginTag(c, userId, pollId, tagName) ==
  /\ svc = "tx" /\ Free(c)
  /\ Step(c, [op |-> "tagPoll", pc |-> "begin", userId |-> userId, pollId |-> pollId,
              name |-> tagName, tagId |-> 0, isDeleted |-> FALSE], DB)

\* the poll lookup: id, owner, isDeleted = false; a miss throws
TagLookupPollT(c) ==
  /\ svc = "tx" /\ calls[c].op = "tagPoll" /\ calls[c].pc = "begin"
  /\ IF ownedActivePoll(DB, calls[c].pollId, calls[c].userId)
       THEN Step(c, [calls[c] EXCEPT !.pc = "owned"], DB)
       ELSE Return(c, DB)

\* pollTag.findFirst(name, userId): sees the committed rows
TagFindT(c) ==
  /\ svc = "tx" /\ calls[c].op = "tagPoll" /\ calls[c].pc = "owned"
  /\ LET found == FindFirst(pollTag, LAMBDA i, r :
                     r.name = calls[c].name /\ r.userId = calls[c].userId)
     IN Step(c, [calls[c] EXCEPT !.pc = "looked", !.tagId = found,
                                 !.isDeleted = found # 0 /\ pollTag[found].isDeleted], DB)

\* the tag row is resurrected, reused or inserted.  The UPDATE that
\* resurrects a row waits while another transaction in flight has updated
\* that row
TagWriteT(c) ==
  /\ svc = "tx" /\ calls[c].op = "tagPoll" /\ calls[c].pc = "looked"
  /\ calls[c].isDeleted =>
       \A d \in CallIds \ {c} :
         ~(/\ calls[d].op = "tagPoll" /\ calls[d].pc = "tagged"
           /\ calls[d].isDeleted /\ calls[d].tagId = calls[c].tagId)
  /\ Step(c, [calls[c] EXCEPT !.pc = "tagged"], DB)

\* the poll_tag_map upsert, the last statement of the transaction: when the
\* store rejects it the transaction is rolled back and the call throws;
\* otherwise the call returns and the transaction commits, its writes
\* reach the tables
TagUpsertT(c) ==
  /\ svc = "tx" /\ calls[c].op = "tagPoll" /\ calls[c].pc = "tagged"
  /\ LET t == calls[c]
         tag1 == IF t.tagId = 0
                   THEN Append(pollTag, [name |-> t.name, userId |-> t.userId,
                                         isDeleted |-> FALSE])
                   ELSE IF t.isDeleted THEN [pollTag EXCEPT ![t.tagId] = Restore(@)]
                   ELSE pollTag
         tagId == IF t.tagId = 0 THEN Len(tag1) ELSE t.tagId
         map1 == upsertMap(pollTagMap, t.pollId, tagId, t.userId)
     IN IF map1.ok
          THEN Return(c, [DB EXCEPT !.pollTag = tag1, !.pollTagMap = map1.rows])
          ELSE Return(c, DB)

\* a statement of the transaction is rejected: rollback, nothing is written
TagRollbackT(c) ==
  /\ svc = "tx" /\ calls[c].op = "tagPoll" /\ InFlight(c)
  /\ Reject(c)

\* ---- createPoll of the diff revision, statement by statement ----

\* createPoll is called: nothing has run yet.  left are the inserts the call
\* has issued and the store has not run yet; failed: one of those it does
\* not await yet has been rejected.
BeginCreateD(c, userId, question, opts, names) ==
  /\ svc = "diff" /\ Free(c)
  /\ Step(c, [op |-> "createPoll", pc |-> "begin", userId |-> userId,
              question |-> question, opts |-> opts, names |-> names,
              pollId |-> 0, left |-> {}, failed |-> FALSE], DB)

\* INSERT INTO poll ... RETURNING; then the option inserts and the tag
\* inserts are issued, all of them before the first is awaited
CreateInsertPollD(c) ==
  /\ svc = "diff" /\ calls[c].op = "createPoll" /\ calls[c].pc = "begin"
  /\ LET n == calls[c]
     IN Step(c, Returned([n EXCEPT !.pc = "inserted", !.pollId = Len(poll) + 1,
                                   !.left = Statements("option", n.opts)
                                              \cup Statements("tag", n.names)]),
             [DB EXCEPT !.poll = Append(@, pollRow(n.userId, n.question, clock(DB)))])

\* one of the issued option inserts runs
CreateInsertOptionD(c) ==
  /\ svc = "diff" /\ calls[c].op = "createPoll" /\ calls[c].pc \in {"inserted", "thrown"}
  /\ \E s \in calls[c].left :
       /\ s.kind = "option"
       /\ Step(c, Returned([calls[c] EXCEPT !.left = @ \ {s}]),
               [DB EXCEPT !.pollOption =
                             @ \o optionRows(calls[c].pollId, <<calls[c].opts[s.k]>>)])

\* one of the issued tag inserts runs
CreateInsertTagD(c) ==
  /\ svc = "diff" /\ calls[c].op = "createPoll" /\ calls[c].pc \in {"inserted", "thrown"}
  /\ \E s \in calls[c].left :
       /\ s.kind = "tag"
       /\ Step(c, Returned([calls[c] EXCEPT !.left = @ \ {s}]),
               [DB EXCEPT !.pollTag = @ \o tagRowsD(calls[c].pollId,
                                                    <<calls[c].names[s.k]>>,
                                                    calls[c].userId)])

\* a statement is rejected: the poll insert ends the call; at a rejected
\* option insert the call throws, and at a rejected tag insert once no
\* option insert is left; the other inserts that were issued still run
CreateRejectD(c) ==
  /\ svc = "diff" /\ calls[c].op = "createPoll"
  /\ \/ calls[c].pc = "begin" /\ Reject(c)
     \/ /\ calls[c].pc \in {"inserted", "thrown"}
        /\ \E s \in calls[c].left : Step(c, Rejection(calls[c], s), DB)

\* ---- updatePoll of the diff revision, statement by statement ----

\* updatePoll is called: nothing has run yet.  ins and del are the names of
\* the tag inserts and of the tag soft deletes the call issues after it has
\* read the poll's tags; left are those the store has not run yet; failed:
\* one of those it does not await yet has been rejected.
BeginUpdate(c, userId, pollId, question, optUpdates, names) ==
  /\ svc = "diff" /\ Free(c)
  /\ Step(c, [op |-> "updatePoll", pc |-> "begin", userId |-> userId, pollId |-> pollId,
              question |-> question, optUpdates |-> optUpdates, names |-> names,
              ins |-> <<>>, del |-> <<>>, left |-> {}, failed |-> FALSE], DB)

\* UPDATE poll SET question ... WHERE id, isDeleted = false, userId; then the
\* forEach issues the option UPDATEs, which nothing awaits
UpdatePollRowD(c) ==
  /\ svc = "diff" /\ calls[c].op = "updatePoll" /\ calls[c].pc = "begin"
  /\ LET u == calls[c]
         mine(i, r) == i = u.pollId /\ ~r.isDeleted /\ r.userId = u.userId
     IN Step(c, [u EXCEPT !.pc = "updated"],
             [DB EXCEPT !.poll = UpdateWhere(@, mine, LAMBDA r :
                                   [r EXCEPT !.question = u.question]),
                        !.pending = @ \o u.optUpdates])

\* the poll's active tags are read; the inserts of the missing names and the
\* soft deletes of the names not in the payload are issued
UpdateReadTagsD(c) ==
  /\ svc = "diff" /\ calls[c].op = "updatePoll" /\ calls[c].pc = "updated"
  /\ LET u == calls[c]
         pollTags == SelectSeq(pollTag, LAMBDA r : r.pollId = u.pollId /\ ~r.isDeleted)
         has(rows, name) == \E k \in DOMAIN rows : rows[k].name = name
         shouldInsertTagNames == SelectSeq(u.names, LAMBDA name : ~has(pollTags, name))
         stale == SelectSeq(pollTags, LAMBDA r :
                              \A j \in DOMAIN u.names : u.names[j] # r.name)
         shouldDeleteTagNames == [k \in DOMAIN stale |-> stale[k].name]
     IN Step(c, Returned([u EXCEPT !.pc = "read",
                                   !.ins = shouldInsertTagNames,
                                   !.del = shouldDeleteTagNames,
                                   !.left = Statements("insert", shouldInsertTagNames)
                                              \cup Statements("delete", shouldDeleteTagNames)]),
             DB)

\* one of the issued tag inserts runs
UpdateInsertTagD(c) ==
  /\ svc = "diff" /\ calls[c].op = "updatePoll" /\ calls[c].pc \in {"read", "thrown"}
  /\ \E s \in calls[c].left :
       /\ s.kind = "insert"
       /\ Step(c, Returned([calls[c] EXCEPT !.left = @ \ {s}]),
               [DB EXCEPT !.pollTag = @ \o tagRowsD(calls[c].pollId,
                                                    <<calls[c].ins[s.k]>>,
                                                    calls[c].userId)])

\* one of the issued tag soft deletes runs: WHERE name, pollId
UpdateDeleteTagD(c) ==
  /\ svc = "diff" /\ calls[c].op = "updatePoll" /\ calls[c].pc \in {"read", "thrown"}
  /\ \E s \in calls[c].left :
       /\ s.kind = "delete"
       /\ LET gone(i, r) == r.name = calls[c].del[s.k] /\ r.pollId = calls[c].pollId
          IN Step(c, Returned([calls[c] EXCEPT !.left = @ \ {s}]),
                  [DB EXCEPT !.pollTag = UpdateWhere(@, gone, SoftDelete)])

\* a statement is rejected: the poll UPDATE or the tag read ends the call;
\* at a rejected tag insert the call throws, and at a rejected soft delete
\* once no tag insert is left; the others that were issued still run
UpdateRejectD(c) ==
  /\ svc = "diff" /\ calls[c].op = "updatePoll"
  /\ \/ calls[c].pc \in {"begin", "updated"} /\ Reject(c)
     \/ /\ calls[c].pc \in {"read", "thrown"}
        /\ \E s \in calls[c].left : Step(c, Rejection(calls[c], s), DB)

\* an option UPDATE in flight reaches the store
ApplyOptionUpdate(k) ==
  svc = "diff" /\ k \in DOMAIN pending /\ Commit(applyOptionUpdate(DB, k))

\* an option UPDATE in flight is rejected by the store; nobody observes it
LoseOptionUpdate(k) ==
  svc = "diff" /\ k \in DOMAIN pending /\ Commit([DB EXCEPT !.pending = Drop(@, k)])

\* ---- deletePoll of the diff revision, statement by statement ----

\* deletePoll is called: Promise.all issues its three UPDATEs together
BeginDeleteD(c, userId, pollId) ==
  /\ svc = "diff" /\ Free(c)
  /\ Step(c, [op |-> "deletePoll", pc |-> "issued", userId |-> userId, pollId |-> pollId,
              left |-> Statements("poll", <<0>>) \cup Statements("options", <<0>>)
                         \cup Statements("tags", <<0>>), failed |-> FALSE], DB)

\* UPDATE poll SET isDeleted = true WHERE id, userId
DeleteUpdatePollD(c) ==
  /\ svc = "diff" /\ calls[c].op = "deletePoll"
  /\ \E s \in calls[c].left :
       /\ s.kind = "poll"
       /\ LET mine(i, r) == i = calls[c].pollId /\ r.userId = calls[c].userId
          IN Step(c, Returned([calls[c] EXCEPT !.left = @ \ {s}]),
                  [DB EXCEPT !.poll = UpdateWhere(@, mine, SoftDelete)])

\* UPDATE poll_option SET isDeleted = true WHERE pollId
DeleteUpdateOptionsD(c) ==
  /\ svc = "diff" /\ calls[c].op = "deletePoll"
  /\ \E s \in calls[c].left :
       /\ s.kind = "options"
       /\ LET ofPoll(i, r) == r.pollId = calls[c].pollId
          IN Step(c, Returned([calls[c] EXCEPT !.left = @ \ {s}]),
                  [DB EXCEPT !.pollOption = UpdateWhere(@, ofPoll, SoftDelete)])

\* UPDATE poll_tag SET isDeleted = true WHERE pollId
DeleteUpdateTagsD(c) ==
  /\ svc = "diff" /\ calls[c].op = "deletePoll"
  /\ \E s \in calls[c].left :
       /\ s.kind = "tags"
       /\ LET ofPoll(i, r) == r.pollId = calls[c].pollId
          IN Step(c, Returned([calls[c] EXCEPT !.left = @ \ {s}]),
                  [DB EXCEPT !.pollTag = UpdateWhere(@, ofPoll, SoftDelete)])

\* one of the three UPDATEs is rejected: the call throws; the others still
\* run and keep their effect
DeleteRejectD(c) ==
  /\ svc = "diff" /\ calls[c].op = "deletePoll"
  /\ \E s \in calls[c].left : Step(c, Rejection(calls[c], s), DB)

(***************************************************************************)
(* Specifications.                                                         *)
(***************************************************************************)
Empty(service) ==
  /\ svc = service
  /\ poll = <<>>
  /\ pollOption = <<>>
  /\ pollTag = <<>>
  /\ pollTagMap = <<>>
  /\ pollVote = <<>>
  /\ pending = <<>>
  /\ calls = [c \in CallIds |-> Idle]

PollIds == 1..MaxPolls
OptionIds == 1..MaxOptions
TagIds == 1..MaxTags

\* no call is in flight and no statement of a call that has thrown
Quiet == \A c \in CallIds : calls[c] = Idle

\* no poll has been created and none is being created
NoPoll == poll = <<>> /\ \A c \in CallIds : calls[c].op # "createPoll"

\* the user has created no poll and is creating none
NoPollOf(u) ==
  /\ \A p \in DOMAIN poll : poll[p].userId # u
  /\ \A c \in CallIds : ~(calls[c].op = "createPoll" /\ calls[c].userId = u)

\* transactional revision: one poll, its options and the votes on it
NextVoteT ==
  \/ \E c \in CallIds, opts \in {<<Opt(1, 0)>>, <<Opt(1, 0), Opt(2, 0)>>} :
       NoPoll /\ BeginCreateT(c, "u1", "q1", opts, <<>>)
  \/ \E c \in CallIds : CreateCommitT(c)
  \/ \E c \in CallIds, u \in Users, p \in DOMAIN poll, o \in DOMAIN pollOption :
       BeginVote(c, u, p, o, 1)
  \/ \E c \in CallIds : VoteLookupT(c)
  \/ \E c \in CallIds : VoteSoftDeleteT(c)
  \/ \E c \in CallIds : VoteResumeT(c)
  \/ \E c \in CallIds : VoteInsertT(c)
  \/ \E c \in CallIds : VoteUpdateT(c)
  \/ \E c \in CallIds : VoteCommitT(c)
  \/ \E p \in DOMAIN poll : DeletePollT(poll[p].userId, p, FALSE)
  \/ \E c \in CallIds, p \in DOMAIN poll, o \in DOMAIN pollOption :
       BeginDeleteOption(c, poll[p].userId, p, o)
  \/ \E c \in CallIds : DeleteOptionLookupT(c)
  \/ \E c \in CallIds : DeleteOptionUpdateT(c)

SpecVoteT == Empty("tx") /\ [][NextVoteT]_vars

\* transactional revision: the poll aggregate (poll, options, tags, tag maps)
NextAggT ==
  \/ \E c \in CallIds, u \in Users, names \in {<<>>, <<"x">>} :
       BeginCreateT(c, u, "q1", <<Opt(1, 0)>>, names)
  \/ \E c \in CallIds : CreateCommitT(c)
  \/ \E c \in CallIds : CreateRollbackT(c)
  \/ \E u \in Users, p \in DOMAIN poll : UpdatePollT(u, p, "q2", FALSE)
  \/ \E u \in Users, p \in DOMAIN poll : DeletePollT(u, p, FALSE)
  \/ \E c \in CallIds, u \in Users, p \in DOMAIN poll : BeginAddOption(c, u, p, Opt(1, 0))
  \/ \E c \in CallIds : AddOptionLookupT(c)
  \/ \E c \in CallIds : AddOptionInsertT(c)
  \/ \E c \in CallIds : AddOptionRejectT(c)
  \/ \E c \in CallIds, p \in DOMAIN poll : BeginTag(c, poll[p].userId, p, "x")
  \/ \E c \in CallIds : TagLookupPollT(c)
  \/ \E c \in CallIds : TagFindT(c)
  \/ \E c \in CallIds : TagWriteT(c)
  \/ \E c \in CallIds : TagUpsertT(c)
  \/ \E c \in CallIds : TagRollbackT(c)
  \/ \E c \in CallIds, p \in DOMAIN poll : BeginUntag(c, poll[p].userId, p, 1)
  \/ \E c \in CallIds : UntagLookupT(c)
  \/ \E c \in CallIds : UntagUpdateT(c)

SpecAggT == Empty("tx") /\ [][NextAggT]_vars

UpdateNames == {<<>>, <<"x">>, <<"y">>}

\* diff revision: the aggregate of one poll (poll, options, tags)
NextAggD ==
  \/ \E c \in CallIds, names \in {<<>>, <<"x">>} :
       NoPoll /\ BeginCreateD(c, "u1", "q1", <<Opt(1, 0)>>, names)
  \/ \E c \in CallIds : CreateInsertPollD(c)
  \/ \E c \in CallIds : CreateInsertOptionD(c)
  \/ \E c \in CallIds : CreateInsertTagD(c)
  \/ \E c \in CallIds : CreateRejectD(c)
  \/ \E c \in CallIds, p \in DOMAIN poll, names \in UpdateNames :
       BeginUpdate(c, poll[p].userId, p, "q2", <<>>, names)
  \/ \E c \in CallIds : UpdatePollRowD(c)
  \/ \E c \in CallIds : UpdateReadTagsD(c)
  \/ \E c \in CallIds : UpdateInsertTagD(c)
  \/ \E c \in CallIds : UpdateDeleteTagD(c)
  \/ \E c \in CallIds, p \in DOMAIN poll : BeginDeleteD(c, poll[p].userId, p)
  \/ \E c \in CallIds : DeleteUpdatePollD(c)
  \/ \E c \in CallIds : DeleteUpdateOptionsD(c)
  \/ \E c \in CallIds : DeleteUpdateTagsD(c)
  \/ \E c \in CallIds : DeleteRejectD(c)

SpecAggD == Empty("diff") /\ [][NextAggD]_vars

\* the option updates of an updatePoll payload
UpdateOptions == {<<optionUpdate(id, OptT(2, "t2", 1))>> : id \in OptionIds}

\* diff revision: a poll per user, their options and the updates in flight
NextOptD ==
  \/ \E c \in CallIds, u \in Users :
       NoPollOf(u) /\ BeginCreateD(c, u, "q1", <<Opt(1, 0)>>, <<>>)
  \/ \E c \in CallIds : CreateInsertPollD(c)
  \/ \E c \in CallIds : CreateInsertOptionD(c)
  \/ \E c \in CallIds, p \in DOMAIN poll, o \in DOMAIN pollOption :
       BeginUpdate(c, poll[p].userId, p, "q2", <<optionUpdate(o, OptT(2, "t2", 1))>>, <<>>)
  \/ \E c \in CallIds : UpdatePollRowD(c)
  \/ \E c \in CallIds : UpdateReadTagsD(c)
  \/ \E k \in DOMAIN pending : ApplyOptionUpdate(k)
  \/ \E k \in DOMAIN pending : LoseOptionUpdate(k)
  \/ \E c \in CallIds, p \in DOMAIN poll : BeginDeleteD(c, poll[p].userId, p)
  \/ \E c \in CallIds : DeleteUpdatePollD(c)
  \/ \E c \in CallIds : DeleteUpdateOptionsD(c)
  \/ \E c \in CallIds : DeleteUpdateTagsD(c)

SpecOptD == Empty("diff") /\ [][NextOptD]_vars

\* diff revision: polls, options and votes
NextVoteD ==
  \/ \E c \in CallIds : BeginCreateD(c, "u1", "q1", <<Opt(1, 0)>>, <<>>)
  \/ \E c \in CallIds : CreateInsertPollD(c)
  \/ \E c \in CallIds : CreateInsertOptionD(c)
  \/ \E c \in CallIds, p \in DOMAIN poll, o \in DOMAIN pollOption, d \in Diffs :
       BeginVote(c, "u1", p, o, d)
  \/ \E c \in CallIds : VoteInsertD(c)
  \/ \E c \in CallIds : VoteUpdateD(c)
  \/ \E c \in CallIds : VoteRejectD(c)

SpecVoteD == Empty("diff") /\ [][NextVoteD]_vars

\* transactional revision: one poll whose options start at count 0, and
\* the votes on it
NextCountT ==
  \/ \E c \in CallIds, opts \in {<<Opt(1, 0)>>, <<Opt(1, 0), Opt(2, 0)>>} :
       NoPoll /\ BeginCreateT(c, "u1", "q1", opts, <<>>)
  \/ \E c \in CallIds : CreateCommitT(c)
  \/ \E c \in CallIds, u \in Users, p \in DOMAIN poll, o \in DOMAIN pollOption :
       BeginVote(c, u, p, o, 1)
  \/ \E c \in CallIds : VoteLookupT(c)
  \/ \E c \in CallIds : VoteSoftDeleteT(c)
  \/ \E c \in CallIds : VoteResumeT(c)
  \/ \E c \in CallIds : VoteInsertT(c)
  \/ \E c \in CallIds : VoteUpdateT(c)
  \/ \E c \in CallIds : VoteCommitT(c)

SpecCountT == Empty("tx") /\ [][NextCountT]_vars

\* both revisions: voteOption calls that run concurrently
NextRaceVote ==
  \/ \E c \in CallIds, opts \in {<<Opt(1, 0)>>, <<Opt(1, 0), Opt(2, 1)>>} :
       /\ NoPoll
       /\ BeginCreateT(c, "u1", "q1", opts, <<>>) \/ BeginCreateD(c, "u1", "q1", opts, <<>>)
  \/ \E c \in CallIds : CreateCommitT(c)
  \/ \E c \in CallIds : CreateInsertPollD(c)
  \/ \E c \in CallIds : CreateInsertOptionD(c)
  \/ \E c \in CallIds, u \in Users, p \in DOMAIN poll, o \in DOMAIN pollOption :
       BeginVote(c, u, p, o, 1)
  \/ \E c \in CallIds : VoteLookupT(c)
  \/ \E c \in CallIds : VoteSoftDeleteT(c)
  \/ \E c \in CallIds : VoteResumeT(c)
  \/ \E c \in CallIds : VoteInsertT(c)
  \/ \E c \in CallIds : VoteUpdateT(c)
  \/ \E c \in CallIds : VoteCommitT(c)
  \/ \E c \in CallIds : VoteRollbackT(c)
  \/ \E c \in CallIds : VoteInsertD(c)
  \/ \E c \in CallIds : VoteUpdateD(c)
  \/ \E c \in CallIds : VoteRejectD(c)

SpecRaceVote == (Empty("tx") \/ Empty("diff")) /\ [][NextRaceVote]_vars

\* diff revision: updatePoll calls (tags) on one poll that run concurrently
NextRaceTagD ==
  \/ \E c \in CallIds : NoPoll /\ BeginCreateD(c, "u1", "q1", <<>>, <<>>)
  \/ \E c \in CallIds : CreateInsertPollD(c)
  \/ \E c \in CallIds, p \in DOMAIN poll, names \in UpdateNames :
       BeginUpdate(c, poll[p].userId, p, "q2", <<>>, names)
  \/ \E c \in CallIds : UpdatePollRowD(c)
  \/ \E c \in CallIds : UpdateReadTagsD(c)
  \/ \E c \in CallIds : UpdateInsertTagD(c)
  \/ \E c \in CallIds : UpdateDeleteTagD(c)
  \/ \E c \in CallIds : UpdateRejectD(c)

SpecRaceTagD == Empty("diff") /\ [][NextRaceTagD]_vars

\* option counts a request may carry: the request schema takes any number
SignedCounts == {-1, 0, 1}

\* diff revision: options created and updated with any count of the request
\* schema, and votes with any diff
NextSignedD ==
  \/ \E c \in CallIds, n \in SignedCounts :
       NoPoll /\ BeginCreateD(c, "u1", "q1", <<Opt(1, n)>>, <<>>)
  \/ \E c \in CallIds : CreateInsertPollD(c)
  \/ \E c \in CallIds : CreateInsertOptionD(c)
  \/ \E c \in CallIds, p \in DOMAIN poll, o \in DOMAIN pollOption, n \in SignedCounts :
       BeginUpdate(c, "u1", p, "q2", <<optionUpdate(o, Opt(1, n))>>, <<>>)
  \/ \E c \in CallIds : UpdatePollRowD(c)
  \/ \E c \in CallIds : UpdateReadTagsD(c)
  \/ \E k \in DOMAIN pending : ApplyOptionUpdate(k)
  \/ \E k \in DOMAIN pending : LoseOptionUpdate(k)
  \/ \E c \in CallIds, p \in DOMAIN poll, o \in DOMAIN pollOption, d \in Diffs :
       BeginVote(c, "u1", p, o, d)
  \/ \E c \in CallIds : VoteInsertD(c)
  \/ \E c \in CallIds : VoteUpdateD(c)

SpecSignedD == Empty("diff") /\ [][NextSignedD]_vars

\* both revisions: polls whose options start at count 0 and votes, none of
\* their statements rejected by the store
NextTally ==
  \/ \E c \in CallIds, opts \in {<<Opt(1, 0)>>, <<Opt(1, 0), Opt(2, 0)>>} :
       /\ NoPoll
       /\ BeginCreateT(c, "u1", "q1", opts, <<>>) \/ BeginCreateD(c, "u1", "q1", opts, <<>>)
  \/ \E c \in CallIds : CreateCommitT(c)
  \/ \E c \in CallIds : CreateInsertPollD(c)
  \/ \E c \in CallIds : CreateInsertOptionD(c)
  \/ \E c \in CallIds, u \in Users, p \in DOMAIN poll, o \in DOMAIN pollOption, d \in Diffs :
       (svc = "tx" => d = 1) /\ BeginVote(c, u, p, o, d)
  \/ \E c \in CallIds : VoteLookupT(c)
  \/ \E c \in CallIds : VoteSoftDeleteT(c)
  \/ \E c \in CallIds : VoteResumeT(c)
  \/ \E c \in CallIds : VoteInsertT(c)
  \/ \E c \in CallIds : VoteUpdateT(c)
  \/ \E c \in CallIds : VoteCommitT(c)
  \/ \E c \in CallIds : VoteInsertD(c)
  \/ \E c \in CallIds : VoteUpdateD(c)

SpecTally == (Empty("tx") \/ Empty("diff")) /\ [][NextTally]_vars

(***************************************************************************)
(* The request layer (routes over the diff revision).  A request carries   *)
(* the session the auth provider resolved from its headers (NoUser when    *)
(* there is none) and a body the route's schema has accepted.  A route     *)
(* returns the database it leaves and the JSON body of its response.       *)
(***************************************************************************)
\* getUserId letting a request without a session through
getUserId_anyone(session) == [thrown |-> FALSE, userId |-> session]

\* getUserId(c): the id of the session's user; without one it throws
\* {code: 401, message: "Unauthorized"}
getUserId(session) ==
  IF session = NoUser THEN [thrown |-> TRUE, userId |-> NoUser]
  ELSE [thrown |-> FALSE, userId |-> session]

Unauthorized == [code |-> 401, message |-> "Unauthorized"]

\* the error middleware: what the handler throws that is not an Error
\* becomes the err envelope of the response; an undefined code is left out
\* of the JSON
errEnvelope(e) ==
  [err |-> IF "code" \in DOMAIN e THEN [code |-> e.code, message |-> e.message]
           ELSE [message |-> e.message]]

\* the response body {}
EmptyBody == <<>>

\* the response to an Error: the app sets no onError, and the framework
\* answers an Error a handler throws itself, before the catch of the
\* middleware sees it
InternalServerError == [status |-> 500, text |-> "Internal Server Error"]

\* the response of a service call that has returned or thrown: a rejected
\* statement throws an Error
respond(r, body) == Result(r.db, IF r.res = "error" THEN InternalServerError ELSE body)

\* POST /poll/create
pollCreate(db, session, body, failAt) ==
  LET id == getUserId(session)
      p == [body EXCEPT !.userId = id.userId]
      r == createPollD(db, id.userId, p.question, p.pollOptions, p.tags, failAt)
  IN IF id.thrown THEN Result(db, errEnvelope(Unauthorized))
     ELSE respond(r, [poll |-> [id |-> Len(r.db.poll), userId |-> r.db.poll[Len(r.db.poll)].userId]])

\* POST /poll/update
pollUpdate(db, session, pollId, body, failAt) ==
  LET id == getUserId(session)
      p == [body EXCEPT !.userId = id.userId]
      r == updatePollD(db, id.userId, pollId, p.question, p.pollOptions, p.tags, failAt)
  IN IF id.thrown THEN Result(db, errEnvelope(Unauthorized))
     ELSE respond(r, EmptyBody)

\* POST /poll/delete
pollDelete(db, session, pollId, failAt) ==
  LET id == getUserId(session)
  IN IF id.thrown THEN Result(db, errEnvelope(Unauthorized))
     ELSE respond(deletePollD(db, id.userId, pollId, failAt), EmptyBody)

\* POST /poll/list
pollList(db, session, limit, offset) ==
  LET id == getUserId(session)
  IN IF id.thrown THEN Result(db, errEnvelope(Unauthorized))
     ELSE Result(db, [polls |-> listPollsD(db, id.userId, limit, offset)])

\* POST /poll/voteOption keeping a userId that the body carries
pollVoteOption_trustsBody(db, session, vote, failAt) ==
  LET id == getUserId(session)
      v == IF vote.userId = NoUser THEN [vote EXCEPT !.userId = id.userId] ELSE vote
  IN IF id.thrown THEN Result(db, errEnvelope(Unauthorized))
     ELSE respond(voteOptionD(db, v.userId, v.pollId, v.optionId, v.diff, failAt), EmptyBody)

\* POST /poll/voteOption
pollVoteOption(db, session, vote, failAt) ==
  LET id == getUserId(session)
      v == [vote EXCEPT !.userId = id.userId]
  IN IF id.thrown THEN Result(db, errEnvelope(Unauthorized))
     ELSE respond(voteOptionD(db, v.userId, v.pollId, v.optionId, v.diff, failAt), EmptyBody)

\* getAllTags(userId): the names of the caller's active tags
getAllTagsD(db, userId) ==
  {db.pollTag[t].name : t \in {k \in DOMAIN db.pollTag :
                                 ~db.pollTag[k].isDeleted /\ db.pollTag[k].userId = userId}}

\* POST /getAllTags
getAllTags(db, session) ==
  LET id == getUserId(session)
  IN IF id.thrown THEN Result(db, errEnvelope(Unauthorized))
     ELSE Result(db, [tags |-> getAllTagsD(db, id.userId)])

\* POST /poll/searchByTag
pollSearchByTag(db, session, tagNames) ==
  LET id == getUserId(session)
  IN IF id.thrown THEN Result(db, errEnvelope(Unauthorized))
     ELSE Result(db, [polls |-> searchPollsByTagNames(db, id.userId, tagNames, 20)])

Sessions == Users \cup {NoUser}

\* bodies of /poll/create and /poll/update; userId is optional in the schema
PollBodies ==
  [question : {"q1"}, pollOptions : {<<>>, <<Opt(1, 0)>>}, tags : {<<>>, <<"x">>},
   userId : Users \cup {NoUser}]

\* bodies of /poll/voteOption; userId is optional in the schema
VoteBodies(pollIds, optionIds) ==
  [pollId : pollIds, optionId : optionIds, diff : {1}, userId : Users \cup {NoUser}]

\* a request has reached its route: without a session the handler throws
\* before it calls the service; with one, the service call is made
PostPollCreate(c, session, body) ==
  LET id == getUserId(session)
  IN IF id.thrown THEN svc = "diff" /\ Commit(pollCreate(DB, session, body, 0).db)
     ELSE BeginCreateD(c, id.userId, body.question, body.pollOptions, body.tags)

PostPollUpdate(c, session, pollId, body) ==
  LET id == getUserId(session)
  IN IF id.thrown THEN svc = "diff" /\ Commit(pollUpdate(DB, session, pollId, body, 0).db)
     ELSE BeginUpdate(c, id.userId, pollId, body.question, body.pollOptions, body.tags)

PostPollDelete(c, session, pollId) ==
  LET id == getUserId(session)
  IN IF id.thrown THEN svc = "diff" /\ Commit(pollDelete(DB, session, pollId, 0).db)
     ELSE BeginDeleteD(c, id.userId, pollId)

PostPollList(session, limit, offset) ==
  svc = "diff" /\ Commit(pollList(DB, session, limit, offset).db)

PostPollVoteOption(c, session, vote) ==
  LET id == getUserId(session)
  IN IF id.thrown THEN svc = "diff" /\ Commit(pollVoteOption(DB, session, vote, 0).db)
     ELSE svc = "diff" /\ BeginVote(c, id.userId, vote.pollId, vote.optionId, vote.diff)

PostGetAllTags(session) ==
  svc = "diff" /\ Commit(getAllTags(DB, session).db)

PostPollSearchByTag(session, tagNames) ==
  svc = "diff" /\ Commit(pollSearchByTag(DB, session, tagNames).db)

\* requests of users with and without a session
NextRoutes ==
  \/ \E c \in CallIds, s \in Sessions, body \in PollBodies :
       /\ s = NoUser \/ NoPoll
       /\ body.userId = NoUser
       /\ PostPollCreate(c, s, body)
  \/ \E c \in CallIds : CreateInsertPollD(c)
  \/ \E c \in CallIds : CreateInsertOptionD(c)
  \/ \E c \in CallIds : CreateInsertTagD(c)
  \/ \E c \in CallIds, p \in DOMAIN poll, s \in Sessions, body \in PollBodies :
       /\ s \in {NoUser, poll[p].userId}
       /\ body.pollOptions = <<>> /\ body.userId = NoUser
       /\ PostPollUpdate(c, s, p, body)
  \/ \E c \in CallIds : UpdatePollRowD(c)
  \/ \E c \in CallIds : UpdateReadTagsD(c)
  \/ \E c \in CallIds : UpdateInsertTagD(c)
  \/ \E c \in CallIds : UpdateDeleteTagD(c)
  \/ \E c \in CallIds, p \in DOMAIN poll, s \in Sessions :
       s \in {NoUser, poll[p].userId} /\ PostPollDelete(c, s, p)
  \/ \E c \in CallIds : DeleteUpdatePollD(c)
  \/ \E c \in CallIds : DeleteUpdateOptionsD(c)
  \/ \E c \in CallIds : DeleteUpdateTagsD(c)
  \/ \E s \in Sessions : PostPollList(s, 10, 0)
  \/ \E c \in CallIds, s \in {NoUser, "u1"}, vote \in VoteBodies(DOMAIN poll, DOMAIN pollOption) :
       /\ pollOption[vote.optionId].pollId = vote.pollId /\ vote.userId # s
       /\ PostPollVoteOption(c, s, vote)
  \/ \E c \in CallIds : VoteInsertD(c)
  \/ \E c \in CallIds : VoteUpdateD(c)
  \/ \E s \in Sessions : PostGetAllTags(s)
  \/ \E s \in Sessions : PostPollSearchByTag(s, {"x"})

SpecRoutes == Empty("diff") /\ [][NextRoutes]_vars

\* both revisions: every operation that writes, on polls alive and deleted
NextLife ==
  \/ \E c \in CallIds, names \in {<<>>, <<"x">>} :
       /\ NoPoll
       /\ \/ BeginCreateT(c, "u1", "q1", <<Opt(1, 0)>>, names)
          \/ BeginCreateD(c, "u1", "q1", <<Opt(1, 0)>>, names)
  \/ \E c \in CallIds : CreateCommitT(c)
  \/ \E c \in CallIds : CreateInsertPollD(c)
  \/ \E c \in CallIds : CreateInsertOptionD(c)
  \/ \E c \in CallIds : CreateInsertTagD(c)
  \/ \E p \in DOMAIN poll : UpdatePollT(poll[p].userId, p, "q2", FALSE)
  \/ \E c \in CallIds, p \in DOMAIN poll, names \in {<<>>, <<"x">>} :
       BeginUpdate(c, poll[p].userId, p, "q2", <<>>, names)
  \/ \E c \in CallIds : UpdatePollRowD(c)
  \/ \E c \in CallIds : UpdateReadTagsD(c)
  \/ \E c \in CallIds : UpdateInsertTagD(c)
  \/ \E c \in CallIds : UpdateDeleteTagD(c)
  \/ \E p \in DOMAIN poll : DeletePollT(poll[p].userId, p, FALSE)
  \/ \E c \in CallIds, p \in DOMAIN poll : BeginDeleteD(c, poll[p].userId, p)
  \/ \E c \in CallIds : DeleteUpdatePollD(c)
  \/ \E c \in CallIds : DeleteUpdateOptionsD(c)
  \/ \E c \in CallIds : DeleteUpdateTagsD(c)
  \/ \E c \in CallIds, o \in DOMAIN pollOption : BeginVote(c, "u1", pollOption[o].pollId, o, 1)
  \/ \E c \in CallIds : VoteLookupT(c)
  \/ \E c \in CallIds : VoteSoftDeleteT(c)
  \/ \E c \in CallIds : VoteResumeT(c)
  \/ \E c \in CallIds : VoteInsertT(c)
  \/ \E c \in CallIds : VoteUpdateT(c)
  \/ \E c \in CallIds : VoteCommitT(c)
  \/ \E c \in CallIds : VoteInsertD(c)
  \/ \E c \in CallIds : VoteUpdateD(c)
  \/ \E c \in CallIds, p \in DOMAIN poll : BeginTag(c, poll[p].userId, p, "x")
  \/ \E c \in CallIds : TagLookupPollT(c)
  \/ \E c \in CallIds : TagFindT(c)
  \/ \E c \in CallIds : TagWriteT(c)
  \/ \E c \in CallIds : TagUpsertT(c)
  \/ \E c \in CallIds, p \in DOMAIN poll, t \in TagIds : BeginUntag(c, poll[p].userId, p, t)
  \/ \E c \in CallIds : UntagLookupT(c)
  \/ \E c \in CallIds : UntagUpdateT(c)
  \/ \E c \in CallIds, p \in DOMAIN poll : BeginAddOption(c, poll[p].userId, p, Opt(2, 0))
  \/ \E c \in CallIds : AddOptionLookupT(c)
  \/ \E c \in CallIds : AddOptionInsertT(c)
  \/ \E c \in CallIds, p \in DOMAIN poll, o \in DOMAIN pollOption :
       BeginDeleteOption(c, poll[p].userId, p, o)
  \/ \E c \in CallIds : DeleteOptionLookupT(c)
  \/ \E c \in CallIds : DeleteOptionUpdateT(c)

SpecLife == (Empty("tx") \/ Empty("diff")) /\ [][NextLife]_vars

\* diff revision: a poll created with several tag names, retagged and deleted
NextSearchD ==
  \/ \E c \in CallIds, names \in {<<>>, <<"x">>, <<"y", "x">>} :
       NoPoll /\ BeginCreateD(c, "u1", "q1", <<>>, names)
  \/ \E c \in CallIds : CreateInsertPollD(c)
  \/ \E c \in CallIds : CreateInsertTagD(c)
  \/ \E c \in CallIds, p \in DOMAIN poll, names \in UpdateNames :
       BeginUpdate(c, poll[p].userId, p, "q2", <<>>, names)
  \/ \E c \in CallIds : UpdatePollRowD(c)
  \/ \E c \in CallIds : UpdateReadTagsD(c)
  \/ \E c \in CallIds : UpdateInsertTagD(c)
  \/ \E c \in CallIds : UpdateDeleteTagD(c)
  \/ \E c \in CallIds, p \in DOMAIN poll : BeginDeleteD(c, poll[p].userId, p)
  \/ \E c \in CallIds : DeleteUpdatePollD(c)
  \/ \E c \in CallIds : DeleteUpdateOptionsD(c)
  \/ \E c \in CallIds : DeleteUpdateTagsD(c)

SpecSearchD == Empty("diff") /\ [][NextSearchD]_vars

(***************************************************************************)
(* Properties.  A property about what a call does is stated for every      *)
(* reachable database and every input of the call: the call is applied to  *)
(* the database of the state and its outcome is examined.                  *)
(***************************************************************************)
\* the number of active votes that reference an option
activeVotesOf(db, optionId) ==
  Cardinality({i \in DOMAIN db.pollVote : /\ db.pollVote[i].optionId = optionId
                                          /\ ~db.pollVote[i].isDeleted})

optionsOf(db, pollId) == {o \in DOMAIN db.pollOption : db.pollOption[o].pollId = pollId}
mapsOf(db, pollId) == {m \in DOMAIN db.pollTagMap : db.pollTagMap[m].pollId = pollId}

\* C1: in the transactional revision voteOption calls made one after
\* another leave at most one vote row with isDeleted = false for every
\* (poll, voter): there is none before the first call, and a call that has
\* completed leaves at most one for every pair that had at most one before
\* it (calls of one voter that overlap are the matter of C32).
C1_OneActiveVote ==
  \A u \in Users, p \in PollIds, o \in OptionIds :
    LET r == voteOptionT(DB, u, p, o, FALSE)
    IN \A p2 \in PollIds, u2 \in Users :
         Cardinality(activeVotes(DB, p2, u2)) <= 1 =>
           Cardinality(activeVotes(r.db, p2, u2)) <= 1

\* a voter has voted twice on a poll: the earlier vote is soft deleted, the
\* later one is active
C1_Revoted ==
  \E i, j \in DOMAIN pollVote :
    /\ i < j
    /\ pollVote[i].pollId = pollVote[j].pollId
    /\ pollVote[i].userId = pollVote[j].userId
    /\ pollVote[i].isDeleted
    /\ ~pollVote[j].isDeleted

\* C2: with options created at count 0 and only votes since, the count of
\* every active option is the number of active votes that reference it.
C2_CountIsActiveVotes ==
  \A o \in DOMAIN pollOption :
    ~pollOption[o].isDeleted => pollOption[o].count = activeVotesOf(DB, o)

\* C3: a voter who votes for option A and then for option B of the same poll
\* ends with exactly one active vote, for B, and A's count is back at the
\* value it had before the first of the two votes.
C3_RevoteMovesTheVote ==
  \A u \in Users, p \in PollIds, a \in OptionIds, b \in OptionIds :
    LET r1 == voteOptionT(DB, u, p, a, FALSE)
        r2 == voteOptionT(r1.db, u, p, b, FALSE)
    IN (a # b /\ r1.res = "true" /\ r2.res = "true") =>
         /\ \E v \in DOMAIN r2.db.pollVote :
              /\ activeVotes(r2.db, p, u) = {v}
              /\ r2.db.pollVote[v].optionId = b
         /\ r2.db.pollOption[a].count = pollOption[a].count

\* C4: updatePoll by a user who does not own the existing, active poll
\* fails (null or a rejection) and changes no row.
C4_UpdateByStrangerChangesNothing ==
  \A u \in Users, p \in DOMAIN poll, q \in Questions, names \in UpdateNames :
    LET r == updatePollD(DB, u, p, q, <<>>, names, 0)
    IN (~poll[p].isDeleted /\ poll[p].userId # u) =>
         r.res \in {"null", "error"} /\ r.db = DB

\* C5: deletePoll by a user who does not own the poll changes no row.
C5_DeleteByStrangerChangesNothing ==
  \A u \in Users, p \in DOMAIN poll :
    poll[p].userId # u => deletePollD(DB, u, p, 0).db = DB

\* C6: every active option and every active tag association belongs to a
\* poll that is not deleted.
C6_ActiveChildrenOfActivePolls ==
  /\ \A o \in DOMAIN pollOption :
       ~pollOption[o].isDeleted => ~poll[pollOption[o].pollId].isDeleted
  /\ \A m \in DOMAIN pollTagMap :
       ~pollTagMap[m].isDeleted => ~poll[pollTagMap[m].pollId].isDeleted

\* C7: after the owner's deletePoll the poll row, its option rows and its
\* tag mapping rows are all soft deleted.
C7_DeleteCascades ==
  \A u \in Users, p \in DOMAIN poll :
    LET r == deletePollT(DB, u, p, FALSE)
    IN poll[p].userId = u =>
         /\ r.db.poll[p].isDeleted
         /\ \A o \in optionsOf(r.db, p) : r.db.pollOption[o].isDeleted
         /\ \A m \in mapsOf(r.db, p) : r.db.pollTagMap[m].isDeleted

\* C8: once the owner's deletePoll has completed, no read returns the poll,
\* whatever call follows (here: one updatePoll by any user).
C8_DeletedPollIsNeverRead ==
  \A owner \in Users, p \in DOMAIN poll :
    LET d == deletePollD(DB, owner, p, 0)
    IN (poll[p].userId = owner /\ d.res = "ok") =>
         \A u \in Users, q \in Questions, names \in UpdateNames :
           LET after == updatePollD(d.db, u, p, q, <<>>, names, 0).db
           IN /\ \A reader \in Users, limit \in 1..MaxPolls, offset \in 0..1 :
                   \A k \in DOMAIN listPollsD(after, reader, limit, offset) :
                     listPollsD(after, reader, limit, offset)[k] # p
              /\ \A reader \in Users, tagNames \in SUBSET Names :
                   \A k \in DOMAIN searchPollsByTagNames(after, reader, tagNames, MaxPolls) :
                     searchPollsByTagNames(after, reader, tagNames, MaxPolls)[k] # p

\* C9: a createPoll in which an option insert or a tag insert fails leaves
\* no row behind.
C9_FailedCreateLeavesNothing ==
  \A u \in Users, opts \in CreateOptions, names \in CreateNames :
    \A failAt \in 2..(1 + Len(opts) + Len(names)) :
      LET r == createPollD(DB, u, "q1", opts, names, failAt)
      IN r.res = "error" /\ r.db = DB

\* C10: a finished voteOption leaves both the new vote row and the count
\* adjustment, or neither.
C10_VoteIsAtomic ==
  \A u \in Users, p \in PollIds, o \in DOMAIN pollOption, d \in Diffs, failAt \in 0..2 :
    LET r == voteOptionD(DB, u, p, o, d, failAt)
    IN \/ r.db = DB
       \/ /\ Len(r.db.pollVote) = Len(pollVote) + 1
          /\ r.db.pollOption[o].count = Greatest(pollOption[o].count + d, 0)

\* C11: voteOption calls of different voters on one option, their statements
\* interleaved: every step changes the option's count by exactly the number
\* of calls on it that succeed in that step (the commit of the transaction,
\* or the count UPDATE of the diff revision with diff = 1), so the final
\* count is the initial count plus the number of successful calls.
C11_NoLostIncrement ==
  [][\A o \in DOMAIN pollOption :
       LET succeeding == {c \in CallIds : /\ calls[c].op = "voteOption"
                                          /\ calls[c].optionId = o
                                          /\ VoteCommitT(c) \/ VoteUpdateD(c)}
       IN pollOption'[o].count = pollOption[o].count + Cardinality(succeeding)]_vars

\* two voters vote for one option and their calls overlap: one call has
\* read the option's count, the other voter's call has committed since, and
\* the first call has gone on to its own count UPDATE
C11_BothVotedOverlapping ==
  \E c \in CallIds, v \in DOMAIN pollVote :
    /\ svc = "tx"
    /\ calls[c].op = "voteOption" /\ calls[c].pc = "updated"
    /\ pollVote[v].optionId = calls[c].optionId
    /\ pollVote[v].userId # calls[c].userId
    /\ calls[c].seen < pollOption[calls[c].optionId].count

\* C12: voteOption on an option of another poll than the vote's pollId, or on
\* a poll that is soft deleted, fails and changes no row.
C12_VoteOnWrongTargetRejected ==
  \A u \in Users, p \in DOMAIN poll, o \in DOMAIN pollOption, d \in Diffs :
    LET r == voteOptionD(DB, u, p, o, d, 0)
    IN (pollOption[o].pollId # p \/ poll[p].isDeleted) =>
         r.res = "error" /\ r.db = DB

\* the option of the payload that an option row was inserted for
asPayload(row) == [index |-> row.index, text |-> row.text, count |-> row.count]

\* lists of distinct tag names
DistinctNames == {<<>>, <<"x">>, <<"y">>, <<"x", "y">>, <<"y", "x">>}

\* C13: a poll created with N options and M distinct tag names is read back
\* (getPollById, listPolls of the owner) with exactly those N options in the
\* order of the payload and exactly those M tags.
C13_ReadBackAsCreated ==
  \A u \in Users, opts \in CreateOptions, names \in DistinctNames :
    LET r == createPollT(DB, u, "q1", opts, names, FALSE)
        id == Len(poll) + 1
    IN Fits(r.db) =>
         /\ getPollById(r.db, id) = id
         /\ \E k \in 1..MaxPolls : listPollsT(r.db, u, MaxPolls, 0)[k] = id
         /\ \A s \in pollOptionsT(r.db, id) :
              [k \in DOMAIN s |-> asPayload(r.db.pollOption[s[k]])] = opts
         /\ Cardinality(pollTagsT(r.db, id)) = Len(names)
         /\ {r.db.pollTag[r.db.pollTagMap[m].tagId].name : m \in pollTagsT(r.db, id)}
              = {names[k] : k \in DOMAIN names}

\* the active tag rows of a poll in the diff revision with a given name and owner
activeTagsD(db, pollId, name, userId) ==
  {t \in DOMAIN db.pollTag : /\ db.pollTag[t].pollId = pollId
                             /\ db.pollTag[t].name = name
                             /\ db.pollTag[t].userId = userId
                             /\ ~db.pollTag[t].isDeleted}

\* C15: when the owner removes all tags of a poll (updatePoll with an empty
\* tag list) and then adds a tag of the same name again, the tag attached
\* afterwards is the tag row it was before and no further tag row exists.
C15_ReaddedTagKeepsItsId ==
  \A u \in Users, p \in DOMAIN poll, n \in Names, q \in Questions :
    LET r1 == updatePollD(DB, u, p, q, <<>>, <<>>, 0)
        r2 == updatePollD(r1.db, u, p, q, <<>>, <<n>>, 0)
    IN (/\ poll[p].userId = u
        /\ ~poll[p].isDeleted
        /\ activeTagsD(DB, p, n, u) # {}
        /\ r1.res = "ok" /\ r2.res = "ok") =>
         /\ activeTagsD(r2.db, p, n, u) = activeTagsD(DB, p, n, u)
         /\ Len(r2.db.pollTag) = Len(pollTag)

\* C16: there is at most one active tag association per poll and tag (in the
\* diff revision: one active poll_tag row per poll and name), also when
\* calls that attach the same tag to the same poll run concurrently.
C16_OneActiveAssociation ==
  \A i, j \in DOMAIN pollTag :
    (/\ pollTag[i].pollId = pollTag[j].pollId
     /\ pollTag[i].name = pollTag[j].name
     /\ ~pollTag[i].isDeleted
     /\ ~pollTag[j].isDeleted) => i = j

\* the names of the active tags of a poll in the diff revision
activeTagNamesD(db, pollId) ==
  {db.pollTag[t].name : t \in {k \in DOMAIN db.pollTag :
                                 db.pollTag[k].pollId = pollId /\ ~db.pollTag[k].isDeleted}}

\* tag name lists of an updatePoll payload, with two names and repeated names
ReconcileNames == UpdateNames \cup {<<"x", "y">>, <<"y", "x">>, <<"x", "x">>}

\* C17: after a successful updatePoll whose payload lists the tag names T the
\* names of the poll's active tags are exactly T.
C17_TagsAreThePayloadNames ==
  \A u \in Users, p \in DOMAIN poll, q \in Questions, names \in ReconcileNames :
    LET r == updatePollD(DB, u, p, q, <<>>, names, 0)
    IN r.res = "ok" =>
         activeTagNamesD(r.db, p) = {names[k] : k \in DOMAIN names}

\* an updated poll of which one tag has been soft deleted and another one is
\* active
C17_TagsReconciled ==
  \E p \in DOMAIN poll, i, j \in DOMAIN pollTag :
    /\ poll[p].question = "q2" /\ ~poll[p].isDeleted
    /\ pollTag[i].pollId = p /\ pollTag[j].pollId = p
    /\ pollTag[i].name = "x" /\ pollTag[i].isDeleted
    /\ pollTag[j].name = "y" /\ ~pollTag[j].isDeleted

\* C18: setting a poll's tags to the same list twice in a row leaves the tag
\* rows of the first call untouched: the second updatePoll, after a createPoll
\* or an updatePoll with the same names, inserts no row and soft deletes none.
C18_SameTagsTwiceIsOnce ==
  /\ \A u \in Users, p \in DOMAIN poll, names \in ReconcileNames :
       LET once == updatePollD(DB, u, p, "q2", <<>>, names, 0)
           twice == updatePollD(once.db, u, p, "q2", <<>>, names, 0)
       IN (once.res = "ok" /\ twice.res = "ok") => twice.db.pollTag = once.db.pollTag
  /\ \A u \in Users, names \in ReconcileNames :
       LET once == createPollD(DB, u, "q1", <<>>, names, 0)
           twice == updatePollD(once.db, u, Len(poll) + 1, "q2", <<>>, names, 0)
       IN (once.res = "ok" /\ twice.res = "ok") => twice.db.pollTag = once.db.pollTag

\* a poll created with tag x and updated with tag x again: its only tag row
\* is the active one of the creation, and a further update with x keeps it
C18_TagsSetTwice ==
  \E p \in DOMAIN poll :
    LET rows == {k \in DOMAIN pollTag : pollTag[k].pollId = p}
    IN /\ poll[p].question = "q2" /\ ~poll[p].isDeleted
       /\ Cardinality(rows) = 1
       /\ \A k \in rows : pollTag[k].name = "x" /\ ~pollTag[k].isDeleted
       /\ updatePollD(DB, poll[p].userId, p, "q2", <<>>, <<"x">>, 0).db.pollTag = pollTag

\* C19: a successful updatePoll of the transactional revision by the poll's
\* owner with the option list L returns the updated poll, soft deletes every
\* option that was active on the poll and leaves one new active option per
\* entry of L.
C19_OwnerUpdateReplacesOptions ==
  svc = "tx" =>
    \A u \in Users, p \in DOMAIN poll, q \in Questions,
       L \in {<<>>, <<Opt(1, 0)>>, <<Opt(1, 0), Opt(2, 0)>>} :
      ownedActivePoll(DB, p, u) =>
        LET r == updatePollT(DB, u, p, q, FALSE)
            before == {k \in DOMAIN pollOption :
                         pollOption[k].pollId = p /\ ~pollOption[k].isDeleted}
            after == {k \in DOMAIN r.db.pollOption :
                        r.db.pollOption[k].pollId = p /\ ~r.db.pollOption[k].isDeleted}
        IN /\ r.res = "ok"
           /\ after \cap before = {}
           /\ Cardinality(after) = Len(L)

\* C20: updatePoll on a soft-deleted poll reports that the poll was not found
\* and leaves every table as it was: it attaches no tag and no option to the
\* deleted poll.
C20_UpdateOfDeletedPollChangesNothing ==
  \A u \in Users, p \in DOMAIN poll, q \in Questions, names \in UpdateNames :
    poll[p].isDeleted =>
      LET r == updatePollD(DB, u, p, q, <<>>, names, 0)
      IN r.res # "ok" /\ r.db = DB

\* C21: whatever createPoll, updatePoll and voteOption calls have been made,
\* with any counts and diffs the request schema accepts, no option has a
\* negative count.
C21_CountsNeverNegative ==
  \A o \in DOMAIN pollOption : pollOption[o].count >= 0

\* the sum of the diff values of the vote rows recorded for an option
RECURSIVE sumOfDiffs(_, _)
sumOfDiffs(votes, optionId) ==
  IF votes = <<>> THEN 0
  ELSE (IF Head(votes).optionId = optionId THEN Head(votes).diff ELSE 0)
       + sumOfDiffs(Tail(votes), optionId)

\* C22: in the diff revision, after any voteOption calls on options created
\* with count 0 (no call is in flight), the count of an option is the sum of
\* the diff values of the vote rows recorded for it.
C22_CountIsSumOfDiffs ==
  (svc = "diff" /\ Quiet) =>
    \A o \in DOMAIN pollOption : pollOption[o].count = sumOfDiffs(pollVote, o)

\* C23: the count of an existing option changes only in the count UPDATE of
\* a voteOption call, and then to the stored count adjusted by the diff of
\* the vote; no statement of updatePoll writes a count.
C23_CountChangesOnlyByVote ==
  [][\A o \in DOMAIN pollOption :
       pollOption'[o].count # pollOption[o].count =>
         \E c \in CallIds :
           /\ calls[c].op = "voteOption" /\ calls[c].pc = "inserted"
           /\ calls[c].optionId = o
           /\ calls'[c] = Idle
           /\ pollOption'[o].count =
                Greatest(pollOption[o].count + calls[c].diff, 0)]_vars

\* the sum of the counts of the options of a poll
RECURSIVE sumOfCounts(_, _)
sumOfCounts(options, pollId) ==
  IF options = <<>> THEN 0
  ELSE (IF Head(options).pollId = pollId THEN Head(options).count ELSE 0)
       + sumOfCounts(Tail(options), pollId)

\* the vote rows that name a poll or one of its options
votesAbout(db, pollId) ==
  {i \in DOMAIN db.pollVote : \/ db.pollVote[i].pollId = pollId
                              \/ db.pollVote[i].optionId \in optionsOf(db, pollId)}

\* every vote about the poll is for one of its options, each voter has voted
\* once, and in the diff revision with diff = 1
eachVotedOnce(db, pollId) ==
  \A i \in votesAbout(db, pollId) :
    /\ db.pollVote[i].pollId = pollId
    /\ db.pollVote[i].optionId \in optionsOf(db, pollId)
    /\ svc = "diff" => db.pollVote[i].diff = 1
    /\ \A j \in votesAbout(db, pollId) :
         db.pollVote[j].userId = db.pollVote[i].userId => j = i

\* C24: when V distinct voters have each voted once, one call after another
\* (diff = 1 in the diff revision), for options of one poll created with
\* count 0, and their calls have returned, the counts of the poll's options
\* add up to V.
C24_CountsAddUpToVoters ==
  \A p \in DOMAIN poll :
    (Quiet /\ eachVotedOnce(DB, p)) =>
      sumOfCounts(pollOption, p) = Cardinality(votesAbout(DB, p))

\* two voters have voted once each, for two options of one poll
C24_TwoVotersVoted ==
  \E p \in DOMAIN poll : \E i, j \in votesAbout(DB, p) :
    /\ Quiet /\ eachVotedOnce(DB, p)
    /\ pollVote[i].userId # pollVote[j].userId
    /\ pollVote[i].optionId # pollVote[j].optionId

\* C25: deletePoll of the transactional revision returns true when the caller
\* owns an active poll with the id, and false when the id is unknown, the
\* poll is another user's or the poll is already soft deleted.
C25_DeleteReportsWhetherFound ==
  \A u \in Users, p \in PollIds :
    deletePollT(DB, u, p, FALSE).res =
      IF ownedActivePoll(DB, p, u) THEN "true" ELSE "false"

\* C26: untagPoll returns true and soft deletes the mapping of (poll, tag,
\* caller) when the caller owns the poll and an active mapping exists;
\* otherwise (no active mapping, or a poll of another user) it returns false
\* and changes nothing.
C26_UntagReportsWhetherFound ==
  \A u \in Users, p \in DOMAIN poll, t \in TagIds :
    LET r == untagPollT(DB, u, p, t, FALSE)
        active == {m \in DOMAIN pollTagMap : /\ pollTagMap[m].pollId = p
                                             /\ pollTagMap[m].tagId = t
                                             /\ pollTagMap[m].userId = u
                                             /\ ~pollTagMap[m].isDeleted}
    IN IF ownedActivePoll(DB, p, u) /\ active # {}
         THEN /\ r.res = "true"
              /\ \A m \in active : r.db.pollTagMap[m].isDeleted
         ELSE r.res = "false" /\ r.db = DB

\* C27: searchPollsByTagNames returns at most `limit` polls, the newest poll
\* first.
C27_SearchIsPagedNewestFirst ==
  \A u \in Users, tagNames \in SUBSET Names, limit \in 1..MaxPolls :
    LET polls == searchPollsByTagNames(DB, u, tagNames, limit)
    IN /\ Len(polls) <= limit
       /\ \A i, j \in DOMAIN polls : i < j => polls[i] >= polls[j]

\* C28: the poll row that /poll/create stores and the vote row that
\* /poll/voteOption stores carry the id of the session's user, and two
\* requests of one user whose bodies differ only in userId leave the same
\* database and the same response.
C28_StoredUserIsTheSession ==
  \A s \in Users, other \in Users \cup {NoUser} :
    /\ \A body \in PollBodies :
         LET r == pollCreate(DB, s, body, 0)
         IN /\ r.db.poll[Len(r.db.poll)].userId = s
            /\ r = pollCreate(DB, s, [body EXCEPT !.userId = other], 0)
    /\ \A vote \in VoteBodies(DOMAIN poll, DOMAIN pollOption) :
         LET r == pollVoteOption(DB, s, vote, 0)
         IN /\ r.db.pollVote[Len(r.db.pollVote)].userId = s
            /\ r = pollVoteOption(DB, s, [vote EXCEPT !.userId = other], 0)

\* a poll with an option on which u1 has voted, where a further vote of u1
\* whose body names u2 is stored as a vote of u1
C28_VoteBodyNamesAnother ==
  \E o \in DOMAIN pollOption, i \in DOMAIN pollVote :
    LET vote == [pollId |-> pollOption[o].pollId, optionId |-> o, diff |-> 1,
                 userId |-> "u2"]
        r == pollVoteOption(DB, "u1", vote, 0)
    IN /\ pollVote[i].userId = "u1" /\ pollVote[i].optionId = o
       /\ poll[pollOption[o].pollId].userId = "u1"
       /\ r.db.pollVote[Len(r.db.pollVote)].userId = "u1"

\* the response is the error envelope with code 401
isUnauthorized(res) ==
  /\ "err" \in DOMAIN res
  /\ "code" \in DOMAIN res.err
  /\ res.err.code = 401

\* C29: a request without a session to any poll route is answered with the
\* error envelope of code 401, and no service operation runs: the database
\* stays as it was.
C29_NoSessionIsUnauthorized ==
  LET refused(r) == isUnauthorized(r.res) /\ r.db = DB
  IN /\ \A body \in PollBodies, failAt \in 0..1 :
          /\ refused(pollCreate(DB, NoUser, body, failAt))
          /\ \A p \in DOMAIN poll : refused(pollUpdate(DB, NoUser, p, body, failAt))
     /\ \A p \in DOMAIN poll, failAt \in 0..1 : refused(pollDelete(DB, NoUser, p, failAt))
     /\ \A limit \in 1..MaxPolls, offset \in 0..1 : refused(pollList(DB, NoUser, limit, offset))
     /\ \A vote \in VoteBodies(DOMAIN poll, DOMAIN pollOption), failAt \in 0..1 :
          refused(pollVoteOption(DB, NoUser, vote, failAt))
     /\ refused(getAllTags(DB, NoUser))
     /\ \A tagNames \in SUBSET Names : refused(pollSearchByTag(DB, NoUser, tagNames))

\* a poll with an option and a tag exists, and a vote request without a
\* session that names them is refused
C29_RefusedOnExistingPoll ==
  \E o \in DOMAIN pollOption, t \in DOMAIN pollTag :
    LET p == pollOption[o].pollId
        r == pollVoteOption(DB, NoUser, [pollId |-> p, optionId |-> o, diff |-> 1,
                                         userId |-> poll[p].userId], 0)
    IN /\ ~poll[p].isDeleted /\ ~pollOption[o].isDeleted
       /\ pollTag[t].pollId = p
       /\ isUnauthorized(r.res) /\ r.db = DB

\* C30: when updatePoll of the diff revision returns, every option update of
\* its payload has reached the store: none is still in flight, and an active
\* option named by the payload has the payload's index, text and count.
C30_OptionUpdatesDoneOnReturn ==
  \A u \in Users, p \in DOMAIN poll, upd \in UpdateOptions :
    LET r == updatePollD(DB, u, p, "q2", upd, <<>>, 0)
    IN r.res = "ok" =>
         \A k \in DOMAIN upd :
           /\ \A j \in DOMAIN r.db.pending : r.db.pending[j] # upd[k]
           /\ (upd[k].id \in DOMAIN pollOption /\ ~pollOption[upd[k].id].isDeleted) =>
                asPayload(r.db.pollOption[upd[k].id]) = asPayload(upd[k])

\* C31: addPollOption, deletePollOption, tagPoll and untagPoll of the
\* transactional revision throw and change no row when the poll does not
\* exist, is soft deleted or is another user's.
C31_NotTheCallersPollIsRefused ==
  \A u \in Users, p \in PollIds :
    (p \notin DOMAIN poll \/ poll[p].isDeleted \/ poll[p].userId # u) =>
      LET refused(r) == r.res = "error" /\ r.db = DB
      IN /\ refused(addPollOptionT(DB, u, p, Opt(1, 0), FALSE))
         /\ \A o \in OptionIds : refused(deletePollOptionT(DB, u, p, o, FALSE))
         /\ \A n \in Names : refused(tagPollT(DB, u, p, n, FALSE))
         /\ \A t \in TagIds : refused(untagPollT(DB, u, p, t, FALSE))

\* a soft-deleted poll that still has an active option, next to an active
\* poll of the other user: the four operations refuse the owner of the
\* deleted poll on both polls
C31_DeletedPollWithChildren ==
  \E p, q \in DOMAIN poll, o \in DOMAIN pollOption :
    /\ poll[p].isDeleted /\ ~poll[q].isDeleted /\ poll[q].userId # poll[p].userId
    /\ pollOption[o].pollId = p /\ ~pollOption[o].isDeleted
    /\ addPollOptionT(DB, poll[p].userId, p, Opt(1, 0), FALSE).res = "error"
    /\ deletePollOptionT(DB, poll[p].userId, q, o, FALSE).res = "error"
    /\ tagPollT(DB, poll[p].userId, q, "x", FALSE).res = "error"
    /\ untagPollT(DB, poll[p].userId, p, 1, FALSE).res = "error"

\* C32: voteOption calls of one voter on one poll, each in its own
\* transaction and their statements interleaved: the committed vote rows
\* hold at most one active vote of a voter on a poll.
C32_OneActiveVoteUnderRaces ==
  svc = "tx" =>
    \A p \in DOMAIN poll, u \in Users : Cardinality(activeVotes(DB, p, u)) <= 1

\* C33: in the transactional revision every active vote references an
\* active option of the vote's poll.
C33_ActiveVotesOnActiveOptions ==
  \A v \in DOMAIN pollVote :
    ~pollVote[v].isDeleted =>
      /\ pollVote[v].optionId \in DOMAIN pollOption
      /\ ~pollOption[pollVote[v].optionId].isDeleted
      /\ pollOption[pollVote[v].optionId].pollId = pollVote[v].pollId

\* C34: a soft-deleted poll stays soft deleted: no step of either revision
\* sets a poll's isDeleted back to false.
C34_DeletedPollStaysDeleted ==
  [][\A p \in DOMAIN poll : poll[p].isDeleted => poll'[p].isDeleted]_vars

\* a soft-deleted poll of the diff revision that carries an active tag: the
\* tag was written by an updatePoll that ran after the poll's deletion
C34_UpdatedAfterDeletion ==
  \E p \in DOMAIN poll, t \in DOMAIN pollTag :
    /\ svc = "diff"
    /\ poll[p].isDeleted
    /\ pollTag[t].pollId = p /\ ~pollTag[t].isDeleted

\* C35: searchPollsByTagNames returns each matching poll at most once, also
\* when several of the requested names are attached to one poll.
C35_SearchReturnsPollsOnce ==
  \A u \in Users, tagNames \in SUBSET Names :
    LET polls == searchPollsByTagNames(DB, u, tagNames, 20)
    IN \A i, j \in DOMAIN polls : polls[i] = polls[j] => i = j

\* C36: getUserVote returns the vote of the user's most recent successful
\* voteOption call on the poll, and null when the user has never voted on
\* it.  A successful call makes its option the answer for its poll and
\* user; a failed call, and a call for another poll or user, leave every
\* other answer as it was; without a vote row of the user the answer is
\* null.
C36_LastVoteWins ==
  \A u \in Users, p \in PollIds :
    /\ (\A v \in DOMAIN pollVote : ~(pollVote[v].pollId = p /\ pollVote[v].userId = u))
         => getUserVote(DB, p, u) = Null
    /\ \A o \in OptionIds :
         LET r == voteOptionT(DB, u, p, o, FALSE)
         IN /\ r.res = "true" =>
                 getUserVote(r.db, p, u) =
                   [pollId |-> p, optionId |-> o, userId |-> u, diff |-> 0]
            /\ r.res # "true" => getUserVote(r.db, p, u) = getUserVote(DB, p, u)
            /\ \A u2 \in Users, p2 \in PollIds :
                 (u2 # u \/ p2 # p) =>
                   getUserVote(r.db, p2, u2) = getUserVote(DB, p2, u2)

\* a user has voted for one option of a poll and then for another one:
\* getUserVote answers with the second
C36_VotedAgain ==
  \E p \in DOMAIN poll, a, b \in DOMAIN pollVote :
    /\ a < b
    /\ pollVote[a].pollId = p /\ pollVote[b].pollId = p
    /\ pollVote[a].userId = pollVote[b].userId
    /\ pollVote[a].optionId # pollVote[b].optionId
    /\ pollVote[a].isDeleted /\ ~pollVote[b].isDeleted
    /\ getUserVote(DB, p, pollVote[b].userId).optionId = pollVote[b].optionId

\* C37: updatePoll of the diff revision, called by the owner of an active
\* poll, leaves the option rows of other users' polls as they were: once the
\* option update of its payload has reached the store, every option of a
\* poll of another user keeps its index, text and count.
C37_OtherPollsOptionsKept ==
  \A u \in Users, p \in DOMAIN poll, upd \in UpdateOptions :
    (poll[p].userId = u /\ ~poll[p].isDeleted) =>
      LET r == updatePollD(DB, u, p, "q2", upd, <<>>, 0)
          done == applyOptionUpdate(r.db, Len(r.db.pending))
      IN \A o \in DOMAIN pollOption :
           (pollOption[o].pollId # p /\ poll[pollOption[o].pollId].userId # u) =>
             asPayload(done.pollOption[o]) = asPayload(pollOption[o])

====
